---- MODULE Spec2Model ----
(***************************************************************************)
(* Model of the happy-shared monorepo.                                     *)
(*                                                                         *)
(* @happy/protocol: the Zod schemas of the durable updates and of the      *)
(* ephemeral events, the two composed unions, the payload wrappers and the *)
(* session / machine id accessor helpers (Spec, SpecContainers).           *)
(* @happy/errors: createSafeError and getErrorStatusCode (SpecSafeError,   *)
(* SpecStatusCode).                                                        *)
(* Metrics routes: the Analytics Engine query handlers (SpecMetrics).      *)
(* @happy/lint-rules: the protocol-helpers and github-casing rules         *)
(* (SpecLint).                                                             *)
(* happy-admin: the useAnalytics composable with its fetches in flight and *)
(* its auto-refresh timer (SpecAnalytics).                                 *)
(* Payload wrappers: UpdatePayloadSchema (SpecPayloads).                   *)
(*                                                                         *)
(* The specifications share the variables; each leaves the variables of    *)
(* the other subsystems at their idle values.                              *)
(*                                                                         *)
(* A JavaScript value is a record [ty, s, n, o, a]: ty is its type tag, s  *)
(* the text of a string, n the number (or 0/1 of a boolean), o the fields  *)
(* of an object (a function from key to value; an absent key is            *)
(* `undefined`) and a the elements of an array.                            *)
(***************************************************************************)
EXTENDS Integers, Sequences, FiniteSets, TLC

VARIABLES value, last, batch, sessionIds, stream, validated,
          calls, log, clock, caught, statusCode, request, sent, reply,
          file, reports, output,
          loading, fetchError, timeRange, autoRefreshEnabled, state,
          refreshIntervalId, timers, fetches, started, mounted

vars == <<value, last, batch, sessionIds, stream, validated,
          calls, log, clock, caught, statusCode, request, sent, reply,
          file, reports, output,
          loading, fetchError, timeRange, autoRefreshEnabled, state,
          refreshIntervalId, timers, fetches, started, mounted>>

\* the state of each consumer: of the unions and helpers, of the update
\* containers, of the safe error responses, of the metrics routes, of the
\* lint rules and of the useAnalytics composable (fetchError is its `error`)
protocolVars == <<value, last, batch, sessionIds>>
containerVars == <<stream, validated>>
errorVars == <<calls, log, clock, caught, statusCode>>
metricsVars == <<request, sent, reply>>
lintVars == <<file, reports, output>>
analyticsVars == <<loading, fetchError, timeRange, autoRefreshEnabled, state,
                   refreshIntervalId, timers, fetches, started, mounted>>

\* what the actions of one of them leave alone
beyondProtocol == <<containerVars, errorVars, metricsVars, lintVars, analyticsVars>>
beyondContainers == <<protocolVars, errorVars, metricsVars, lintVars, analyticsVars>>
beyondErrors == <<protocolVars, containerVars, metricsVars, lintVars, analyticsVars>>
beyondMetrics == <<protocolVars, containerVars, errorVars, lintVars, analyticsVars>>
beyondLint == <<protocolVars, containerVars, errorVars, metricsVars, analyticsVars>>
beyondAnalytics == <<protocolVars, containerVars, errorVars, metricsVars, lintVars>>

-----------------------------------------------------------------------------
(* JavaScript values *)

NoFields == [k \in {} |-> 0]

JStr(text) == [ty |-> "string", s |-> text, n |-> 0, o |-> NoFields, a |-> <<>>]
JNum(num) == [ty |-> "number", s |-> "", n |-> num, o |-> NoFields, a |-> <<>>]
JBool(b) == [ty |-> "boolean", s |-> "", n |-> IF b THEN 1 ELSE 0, o |-> NoFields, a |-> <<>>]
JNull == [ty |-> "null", s |-> "", n |-> 0, o |-> NoFields, a |-> <<>>]
JObj(fields) == [ty |-> "object", s |-> "", n |-> 0, o |-> fields, a |-> <<>>]
JArr(elems) == [ty |-> "array", s |-> "", n |-> 0, o |-> NoFields, a |-> elems]
\* the value of a missing property, of a function that returns nothing
Undefined == [ty |-> "undefined", s |-> "", n |-> 0, o |-> NoFields, a |-> <<>>]

Has(v, key) == v.ty = "object" /\ key \in DOMAIN v.o
\* v[key] of JavaScript: undefined for a key the object does not have
Prop(v, key) == IF Has(v, key) THEN v.o[key] ELSE Undefined
\* { ...v, [key]: x }
With(v, key, x) == JObj([k \in (DOMAIN v.o) \cup {key} |-> IF k = key THEN x ELSE v.o[k]])
\* v without its property key
Without(v, key) == JObj([k \in (DOMAIN v.o) \ {key} |-> v.o[k]])

-----------------------------------------------------------------------------
\* a consumer that has not been given anything
IdleContainers == stream = <<>> /\ validated = <<>>
IdleErrors ==
    /\ calls = <<>>
    /\ log = <<>>
    /\ clock = 0
    /\ caught = Undefined
    /\ statusCode = 0
NoRequest ==
    [route |-> "none", env |-> Undefined, query |-> Undefined, engine |-> Undefined,
     random |-> 0]
NoReply == [status |-> 0, body |-> Undefined]
IdleMetrics == request = NoRequest /\ sent = "" /\ reply = NoReply
NoFile == [filename |-> "", rule |-> "none", body |-> <<>>]
IdleLint == file = NoFile /\ reports = <<>> /\ output = <<>>
\* const state = ref<AnalyticsState>({...}): each dataset is tagged with the
\* fetchAll that brought it (0: none) and the hours it was asked for
NoData == [from |-> 0, hours |-> 0]
EmptyState ==
    [summary |-> NoData, timeseries |-> NoData, cacheHits |-> NoData,
     modeDistribution |-> NoData, lastUpdated |-> 0]
\* useAnalytics() has run and nothing has been called
IdleAnalytics ==
    /\ loading = FALSE
    /\ fetchError = JNull
    /\ timeRange = "24h"
    /\ autoRefreshEnabled = TRUE
    /\ state = EmptyState
    /\ refreshIntervalId = 0
    /\ timers = {}
    /\ fetches = <<>>
    /\ started = 0
    /\ mounted = "setup"

-----------------------------------------------------------------------------
(* Zod schemas.  A field schema is a record: kind is the Zod type, lit the *)
(* value of a z.literal, enum the values of a z.enum, opt / nul say        *)
(* whether .optional() / .nullable() wrap it (.nullish() is both), min and *)
(* max are the .min() / .max() of a string (-1: none) and sub is the       *)
(* z.object shape of an object or of the elements of an array.             *)

NoShape == [k \in {} |-> 0]
NoLimit == -1

ZString == [kind |-> "string", lit |-> "", enum |-> {}, opt |-> FALSE, nul |-> FALSE,
            min |-> NoLimit, max |-> NoLimit, sub |-> NoShape]
ZNumber == [ZString EXCEPT !.kind = "number"]
ZBoolean == [ZString EXCEPT !.kind = "boolean"]
ZLiteral(text) == [ZString EXCEPT !.kind = "literal", !.lit = text]
ZEnum(values) == [ZString EXCEPT !.kind = "enum", !.enum = values]
ZObject(shape) == [ZString EXCEPT !.kind = "object", !.sub = shape]
ZArray(shape) == [ZString EXCEPT !.kind = "array", !.sub = shape]
ZFeedBody == [ZString EXCEPT !.kind = "feedBody"]
Optional(z) == [z EXCEPT !.opt = TRUE]
Nullable(z) == [z EXCEPT !.nul = TRUE]
Nullish(z) == [z EXCEPT !.opt = TRUE, !.nul = TRUE]
Min(z, k) == [z EXCEPT !.min = k]
Max(z, k) == [z EXCEPT !.max = k]

\* STRING_LIMITS of ../constraints
ID_MAX == 256
ENCRYPTED_STATE_MAX == 65536
DATA_ENCRYPTION_KEY_MAX == 1024

(* common.ts *)
ImageRefSchema ==
    [width |-> ZNumber, height |-> ZNumber, thumbhash |-> ZString,
     path |-> ZString, url |-> ZString]

GitHubProfileSchema ==
    [id |-> ZNumber, login |-> ZString, name |-> ZString, avatar_url |-> ZString,
     email |-> Optional(ZString), bio |-> Nullable(ZString)]

RelationshipStatusSchema == ZEnum({"none", "requested", "pending", "friend", "rejected"})

UserProfileSchema ==
    [id |-> ZString, firstName |-> ZString, lastName |-> Nullable(ZString),
     avatar |-> Nullable(ZObject(ImageRefSchema)), username |-> ZString,
     bio |-> Nullable(ZString), status |-> RelationshipStatusSchema]

\* z.discriminatedUnion('kind', [...]): the shape each kind selects
FeedBodySchema ==
    [friend_request |-> [kind |-> ZLiteral("friend_request"), uid |-> ZString],
     friend_accepted |-> [kind |-> ZLiteral("friend_accepted"), uid |-> ZString],
     text |-> [kind |-> ZLiteral("text"), text |-> ZString]]

EncryptedContentSchema == [t |-> ZLiteral("encrypted"), c |-> ZString]

VersionedValueSchema == [version |-> ZNumber, value |-> ZString]

NullableVersionedValueSchema == [version |-> ZNumber, value |-> Nullable(ZString)]

(* updates/message.ts *)
ApiMessageSchema ==
    [id |-> ZString, seq |-> ZNumber, localId |-> Nullish(ZString),
     content |-> ZObject(EncryptedContentSchema), createdAt |-> ZNumber]

ApiUpdateNewMessageSchema ==
    [t |-> ZLiteral("new-message"), sid |-> ZString, message |-> ZObject(ApiMessageSchema)]

ApiDeleteSessionSchema == [t |-> ZLiteral("delete-session"), sid |-> ZString]

(* updates/session.ts *)
\* the session id field of new-session, as the earlier revision of the file names it
ApiUpdateNewSessionSchemaIdField ==
    [t |-> ZLiteral("new-session"),
     id |-> ZString,
     seq |-> ZNumber,
     metadata |-> ZString,
     metadataVersion |-> ZNumber,
     agentState |-> Nullable(ZString),
     agentStateVersion |-> ZNumber,
     dataEncryptionKey |-> Nullable(ZString),
     active |-> ZBoolean, activeAt |-> ZNumber, createdAt |-> ZNumber, updatedAt |-> ZNumber]

ApiUpdateNewSessionSchema ==
    [t |-> ZLiteral("new-session"),
     sid |-> Max(Min(ZString, 1), ID_MAX),
     seq |-> ZNumber,
     metadata |-> Max(ZString, ENCRYPTED_STATE_MAX),
     metadataVersion |-> ZNumber,
     agentState |-> Nullable(Max(ZString, ENCRYPTED_STATE_MAX)),
     agentStateVersion |-> ZNumber,
     dataEncryptionKey |-> Nullable(Max(ZString, DATA_ENCRYPTION_KEY_MAX)),
     active |-> ZBoolean, activeAt |-> ZNumber, createdAt |-> ZNumber, updatedAt |-> ZNumber]

ApiUpdateSessionStateSchema ==
    [t |-> ZLiteral("update-session"),
     sid |-> Max(Min(ZString, 1), ID_MAX),
     agentState |-> Nullish(ZObject(NullableVersionedValueSchema)),
     metadata |-> Nullish(ZObject(NullableVersionedValueSchema))]

ArchiveReasonSchema == ZEnum({"revival_failed", "user_requested", "timeout"})

ApiArchiveSessionSchema ==
    [t |-> ZLiteral("archive-session"),
     sid |-> Max(Min(ZString, 1), ID_MAX),
     archivedAt |-> ZNumber,
     archiveReason |-> ArchiveReasonSchema]

(* updates/machine.ts *)
ApiNewMachineSchema ==
    [t |-> ZLiteral("new-machine"),
     machineId |-> Max(Min(ZString, 1), ID_MAX),
     seq |-> ZNumber,
     metadata |-> Max(ZString, ENCRYPTED_STATE_MAX),
     metadataVersion |-> ZNumber,
     daemonState |-> Nullable(Max(ZString, ENCRYPTED_STATE_MAX)),
     daemonStateVersion |-> ZNumber,
     dataEncryptionKey |-> Nullable(Max(ZString, DATA_ENCRYPTION_KEY_MAX)),
     active |-> ZBoolean, activeAt |-> ZNumber, createdAt |-> ZNumber, updatedAt |-> ZNumber]

\* update-machine with its id in `id`, the way machine-activity names it
ApiUpdateMachineStateSchemaIdField ==
    [t |-> ZLiteral("update-machine"),
     id |-> Max(Min(ZString, 1), ID_MAX),
     metadata |-> Optional(ZObject(VersionedValueSchema)),
     daemonState |-> Optional(ZObject(VersionedValueSchema)),
     active |-> Optional(ZBoolean),
     activeAt |-> Optional(ZNumber)]

ApiUpdateMachineStateSchema ==
    [t |-> ZLiteral("update-machine"),
     machineId |-> Max(Min(ZString, 1), ID_MAX),
     metadata |-> Optional(ZObject(VersionedValueSchema)),
     daemonState |-> Optional(ZObject(VersionedValueSchema)),
     active |-> Optional(ZBoolean),
     activeAt |-> Optional(ZNumber)]

ApiDeleteMachineSchema ==
    [t |-> ZLiteral("delete-machine"), machineId |-> Max(Min(ZString, 1), ID_MAX)]

(* updates/artifact.ts *)
ApiNewArtifactSchema ==
    [t |-> ZLiteral("new-artifact"), artifactId |-> ZString, header |-> ZString,
     headerVersion |-> ZNumber, body |-> Optional(ZString), bodyVersion |-> Optional(ZNumber),
     dataEncryptionKey |-> ZString, seq |-> ZNumber, createdAt |-> ZNumber,
     updatedAt |-> ZNumber]

ApiUpdateArtifactSchema ==
    [t |-> ZLiteral("update-artifact"), artifactId |-> ZString,
     header |-> Optional(ZObject(VersionedValueSchema)),
     body |-> Optional(ZObject(VersionedValueSchema))]

ApiDeleteArtifactSchema == [t |-> ZLiteral("delete-artifact"), artifactId |-> ZString]

(* updates/account.ts *)
ApiUpdateAccountSchema ==
    [t |-> ZLiteral("update-account"), id |-> ZString,
     settings |-> Nullish(ZObject(NullableVersionedValueSchema)),
     firstName |-> Nullish(ZString), lastName |-> Nullish(ZString),
     avatar |-> Nullish(ZObject(ImageRefSchema)),
     github |-> Nullish(ZObject(GitHubProfileSchema))]

(* updates/misc.ts *)
ApiRelationshipUpdatedSchema ==
    [t |-> ZLiteral("relationship-updated"), fromUserId |-> ZString, toUserId |-> ZString,
     status |-> RelationshipStatusSchema,
     action |-> ZEnum({"created", "updated", "deleted"}),
     fromUser |-> Optional(ZObject(UserProfileSchema)),
     toUser |-> Optional(ZObject(UserProfileSchema)),
     timestamp |-> ZNumber]

ApiNewFeedPostSchema ==
    [t |-> ZLiteral("new-feed-post"), id |-> ZString, body |-> ZFeedBody,
     cursor |-> ZString, createdAt |-> ZNumber, repeatKey |-> Nullable(ZString)]

ApiKvBatchUpdateSchema ==
    [t |-> ZLiteral("kv-batch-update"),
     changes |-> ZArray([key |-> ZString, value |-> Nullable(ZString), version |-> ZNumber])]

(* updates/index.ts *)
\* export * from './message' ... './misc': every update variant the package defines
UpdateVariantSchemas ==
    {ApiUpdateNewMessageSchema, ApiDeleteSessionSchema,
     ApiUpdateNewSessionSchema, ApiUpdateSessionStateSchema, ApiArchiveSessionSchema,
     ApiNewMachineSchema, ApiUpdateMachineStateSchema, ApiDeleteMachineSchema,
     ApiNewArtifactSchema, ApiUpdateArtifactSchema, ApiDeleteArtifactSchema,
     ApiUpdateAccountSchema,
     ApiRelationshipUpdatedSchema, ApiNewFeedPostSchema, ApiKvBatchUpdateSchema}

\* z.discriminatedUnion('t', [...]): the options, in the order of the source
ApiUpdateSchema ==
    <<ApiUpdateNewMessageSchema,
      ApiUpdateNewSessionSchema,
      ApiDeleteSessionSchema,
      ApiUpdateSessionStateSchema,
      ApiUpdateAccountSchema,
      ApiUpdateMachineStateSchema,
      ApiNewMachineSchema,
      ApiNewArtifactSchema,
      ApiUpdateArtifactSchema,
      ApiDeleteArtifactSchema,
      ApiRelationshipUpdatedSchema,
      ApiNewFeedPostSchema,
      ApiKvBatchUpdateSchema>>

(* ephemeral/events.ts *)
\* the activity event with z.string() for its type
ApiEphemeralActivityUpdateSchemaAnyType ==
    [type |-> ZString, id |-> ZString, active |-> ZBoolean,
     activeAt |-> ZNumber, thinking |-> ZBoolean]

ApiEphemeralActivityUpdateSchema ==
    [type |-> ZLiteral("activity"), id |-> ZString, active |-> ZBoolean,
     activeAt |-> ZNumber, thinking |-> ZBoolean]

ApiEphemeralUsageUpdateSchema ==
    [type |-> ZLiteral("usage"), id |-> ZString, key |-> ZString, timestamp |-> ZNumber,
     tokens |-> ZObject([total |-> ZNumber, input |-> ZNumber, output |-> ZNumber,
                         cache_creation |-> ZNumber, cache_read |-> ZNumber]),
     cost |-> ZObject([total |-> ZNumber, input |-> ZNumber, output |-> ZNumber])]

\* machine-activity under the type of the session's activity event
ApiEphemeralMachineActivityUpdateSchemaActivityType ==
    [type |-> ZLiteral("activity"), id |-> ZString, active |-> ZBoolean,
     activeAt |-> ZNumber]

ApiEphemeralMachineActivityUpdateSchema ==
    [type |-> ZLiteral("machine-activity"), id |-> ZString, active |-> ZBoolean,
     activeAt |-> ZNumber]

ApiEphemeralMachineStatusUpdateSchema ==
    [type |-> ZLiteral("machine-status"), machineId |-> ZString, online |-> ZBoolean,
     timestamp |-> ZNumber]

\* z.union([...]): the alternatives, in the order of the source
ApiEphemeralUpdateSchema ==
    <<ApiEphemeralActivityUpdateSchema,
      ApiEphemeralUsageUpdateSchema,
      ApiEphemeralMachineActivityUpdateSchema,
      ApiEphemeralMachineStatusUpdateSchema>>

-----------------------------------------------------------------------------
(* Zod's parsing.  The result of safeParse is [success, data, issues]: on  *)
(* success data is the parsed output, otherwise issues is the set of the   *)
(* ZodIssues; an issue is its path, its code and, for invalid_union, the   *)
(* issues of each alternative in turn.                                     *)

Issue(path, code) == [path |-> path, code |-> code, unionErrors |-> <<>>]
Ok(data) == [success |-> TRUE, data |-> data, issues |-> {}]
Fail(issues) == [success |-> FALSE, data |-> Undefined, issues |-> issues]

\* the checks of z.string().min().max(): every violated check is reported
StringChecks(z, v, path) ==
    (IF z.min # NoLimit /\ Len(v.s) < z.min THEN {Issue(path, "too_small")} ELSE {})
    \cup (IF z.max # NoLimit /\ Len(v.s) > z.max THEN {Issue(path, "too_big")} ELSE {})

RECURSIVE ParseField(_, _, _)
RECURSIVE ParseObject(_, _, _)

\* ZodDiscriminatedUnion._parse for FeedBodySchema
ParseFeedBody(v, path) ==
    IF v.ty # "object" THEN Fail({Issue(path, "invalid_type")})
    ELSE LET d == Prop(v, "kind") IN
         IF d.ty = "string" /\ d.s \in DOMAIN FeedBodySchema
         THEN ParseObject(FeedBodySchema[d.s], v, path)
         ELSE Fail({Issue(path \o <<"kind">>, "invalid_union_discriminator")})

\* ZodArray._parse: every element is parsed, the issues of all are reported
ParseArray(shape, v, path) ==
    IF v.ty # "array" THEN Fail({Issue(path, "invalid_type")})
    ELSE LET r == [i \in DOMAIN v.a |-> ParseObject(shape, v.a[i], path \o <<ToString(i - 1)>>)]
             issues == UNION {r[i].issues : i \in DOMAIN v.a}
         IN IF issues = {} THEN Ok(JArr([i \in DOMAIN v.a |-> r[i].data])) ELSE Fail(issues)

\* _parse of one field schema; v is Undefined for a key the input lacks
ParseField(z, v, path) ==
    IF v = Undefined /\ z.opt THEN Ok(Undefined)
    ELSE IF v = JNull /\ z.nul THEN Ok(JNull)
    ELSE CASE z.kind = "string" ->
                 IF v.ty # "string" THEN Fail({Issue(path, "invalid_type")})
                 ELSE IF StringChecks(z, v, path) = {} THEN Ok(v)
                 ELSE Fail(StringChecks(z, v, path))
           [] z.kind = "number" ->
                 IF v.ty = "number" THEN Ok(v) ELSE Fail({Issue(path, "invalid_type")})
           [] z.kind = "boolean" ->
                 IF v.ty = "boolean" THEN Ok(v) ELSE Fail({Issue(path, "invalid_type")})
           [] z.kind = "literal" ->
                 IF v = JStr(z.lit) THEN Ok(v) ELSE Fail({Issue(path, "invalid_literal")})
           [] z.kind = "enum" ->
                 IF v.ty # "string" THEN Fail({Issue(path, "invalid_type")})
                 ELSE IF v.s \in z.enum THEN Ok(v)
                 ELSE Fail({Issue(path, "invalid_enum_value")})
           [] z.kind = "object" -> ParseObject(z.sub, v, path)
           [] z.kind = "array" -> ParseArray(z.sub, v, path)
           [] z.kind = "feedBody" -> ParseFeedBody(v, path)

\* ZodObject._parse with unknownKeys: "passthrough": the keys the shape does
\* not declare are copied to the output
ParseObjectPassthrough(shape, v, path) ==
    IF v.ty # "object" THEN Fail({Issue(path, "invalid_type")})
    ELSE LET r == [k \in DOMAIN shape |-> ParseField(shape[k], Prop(v, k), path \o <<k>>)]
             issues == UNION {r[k].issues : k \in DOMAIN shape}
             keys == {k \in DOMAIN shape : r[k].data # Undefined}
         IN IF issues = {}
            THEN Ok(JObj([k \in keys \cup (DOMAIN v.o \ DOMAIN shape) |->
                             IF k \in keys THEN r[k].data ELSE v.o[k]]))
            ELSE Fail(issues)

\* ZodObject._parse with the default unknownKeys: "strip": only the keys of
\* the shape are parsed and only they appear in the output
ParseObject(shape, v, path) ==
    IF v.ty # "object" THEN Fail({Issue(path, "invalid_type")})
    ELSE LET r == [k \in DOMAIN shape |-> ParseField(shape[k], Prop(v, k), path \o <<k>>)]
             issues == UNION {r[k].issues : k \in DOMAIN shape}
             keys == {k \in DOMAIN shape : r[k].data # Undefined}
         IN IF issues = {} THEN Ok(JObj([k \in keys |-> r[k].data])) ELSE Fail(issues)

\* ZodDiscriminatedUnion._parse: the discriminator's value is looked up in
\* the map of the options and the input is parsed by that option alone
ParseDiscriminatedUnion(disc, options, v, path) ==
    IF v.ty # "object" THEN Fail({Issue(path, "invalid_type")})
    ELSE LET d == Prop(v, disc)
             hit == {i \in DOMAIN options : d = JStr(options[i][disc].lit)}
         IN IF hit = {}
            THEN Fail({Issue(path \o <<disc>>, "invalid_union_discriminator")})
            ELSE ParseObject(options[CHOOSE i \in hit : TRUE], v, path)

\* ZodUnion._parse: every alternative is tried; the first that succeeds gives
\* the result, and when none does the one issue invalid_union carries the
\* errors of all of them
ParseUnion(options, v, path) ==
    LET r == [i \in DOMAIN options |-> ParseObject(options[i], v, path)]
        good == {i \in DOMAIN options : r[i].success}
    IN IF good # {}
       THEN r[CHOOSE i \in good : \A j \in good : i <= j]
       ELSE Fail({[path |-> path, code |-> "invalid_union",
                   unionErrors |-> [i \in DOMAIN options |-> r[i].issues]]})

\* the update union composed with z.union, as the ephemeral one is
ApiUpdateSchemaParsePlainUnion(v) == ParseUnion(ApiUpdateSchema, v, <<>>)

\* ApiUpdateSchema.safeParse(v)
ApiUpdateSchemaParse(v) == ParseDiscriminatedUnion("t", ApiUpdateSchema, v, <<>>)

\* ApiEphemeralUpdateSchema.safeParse(v)
ApiEphemeralUpdateSchemaParse(v) == ParseUnion(ApiEphemeralUpdateSchema, v, <<>>)

-----------------------------------------------------------------------------
(* helpers.ts: the session / machine id accessors (HAP-653).  A call either *)
(* returns a value or ends in a fault.                                      *)

Return(v) == [kind |-> "return", val |-> v]
Fault == [kind |-> "throw", val |-> Undefined]

\* the statically known variants that carry each identifier
SessionIdUpdateTags ==
    {"new-session", "update-session", "delete-session", "archive-session", "new-message"}
MachineIdUpdateTags == {"new-machine", "update-machine", "delete-machine"}
SessionIdEphemeralTypes == {"activity", "usage"}
MachineIdEphemeralTypes == {"machine-activity", "machine-status", "machine-disconnected"}

TagIn(u, disc, tags) == Prop(u, disc).ty = "string" /\ Prop(u, disc).s \in tags

hasSessionId(u) == TagIn(u, "t", SessionIdUpdateTags)
\* hasMachineId that also holds for the updates that carry a sid
hasMachineIdOrSessionId(u) == TagIn(u, "t", MachineIdUpdateTags \cup SessionIdUpdateTags)

hasMachineId(u) == TagIn(u, "t", MachineIdUpdateTags)
hasSessionIdEphemeral(u) == TagIn(u, "type", SessionIdEphemeralTypes)
hasMachineIdEphemeral(u) == TagIn(u, "type", MachineIdEphemeralTypes)

\* getSessionId reading the field of whatever it is given
getSessionIdUnchecked(u) == Return(Prop(u, "sid"))

getSessionId(u) == IF hasSessionId(u) THEN Return(Prop(u, "sid")) ELSE Fault
getMachineId(u) == IF hasMachineId(u) THEN Return(Prop(u, "machineId")) ELSE Fault
getSessionIdFromEphemeral(u) ==
    IF hasSessionIdEphemeral(u) THEN Return(Prop(u, "sid")) ELSE Fault
getMachineIdFromEphemeral(u) ==
    IF hasMachineIdEphemeral(u) THEN Return(Prop(u, "machineId")) ELSE Fault

tryGetSessionId(u) == IF hasSessionId(u) THEN Return(Prop(u, "sid")) ELSE Return(Undefined)
\* tryGetMachineId answering with the machineId of any value that has one
tryGetMachineIdAnyField(u) == Return(Prop(u, "machineId"))

tryGetMachineId(u) == IF hasMachineId(u) THEN Return(Prop(u, "machineId")) ELSE Return(Undefined)
tryGetSessionIdFromEphemeral(u) ==
    IF hasSessionIdEphemeral(u) THEN Return(Prop(u, "sid")) ELSE Return(Undefined)
tryGetMachineIdFromEphemeral(u) ==
    IF hasMachineIdEphemeral(u) THEN Return(Prop(u, "machineId")) ELSE Return(Undefined)

\* updates.filter(hasSessionId).map(getSessionId)
FilterThenGet(us) ==
    LET kept == SelectSeq(us, hasSessionId) IN [i \in DOMAIN kept |-> getSessionId(kept[i])]

\* updates.map(tryGetSessionId).filter(id => id !== undefined)
IsDefined(r) == r # Return(Undefined)
TryGetThenFilter(us) == SelectSeq([i \in DOMAIN us |-> tryGetSessionId(us[i])], IsDefined)

RECURSIVE ProcessMixed(_)
\* for (const update of updates) {
\*     if (hasSessionId(update)) results.push({ type: 'session', id: getSessionId(update) })
\*     else if (hasMachineId(update)) results.push({ type: 'machine', id: getMachineId(update) }) }
ProcessMixed(us) ==
    IF us = <<>> THEN <<>>
    ELSE LET update == us[Len(us)]
             results == ProcessMixed(SubSeq(us, 1, Len(us) - 1))
         IN IF hasSessionId(update)
            THEN Append(results, [type |-> "session", id |-> getSessionId(update)])
            ELSE IF hasMachineId(update)
            THEN Append(results, [type |-> "machine", id |-> getMachineId(update)])
            ELSE results

-----------------------------------------------------------------------------
(* The values the package is given.  Now stands for Date.now().            *)

Now == 1700

\* v with its property `from` renamed to `to`
Renamed(v, from, to) == With(Without(v, from), to, v.o[from])

newSessionUpdate ==
    JObj([t |-> JStr("new-session"), sid |-> JStr("session-123"), seq |-> JNum(1),
          metadata |-> JStr("encrypted-metadata"), metadataVersion |-> JNum(1),
          agentState |-> JNull, agentStateVersion |-> JNum(0), dataEncryptionKey |-> JNull,
          active |-> JBool(TRUE), activeAt |-> JNum(Now), createdAt |-> JNum(Now),
          updatedAt |-> JNum(Now)])

updateSessionUpdate ==
    JObj([t |-> JStr("update-session"), sid |-> JStr("session-456"),
          agentState |-> JObj([version |-> JNum(1), value |-> JStr("state")])])

newMessageUpdate ==
    JObj([t |-> JStr("new-message"), sid |-> JStr("session-789"),
          message |-> JObj([id |-> JStr("msg-001"), seq |-> JNum(1),
                            content |-> JObj([t |-> JStr("encrypted"),
                                              c |-> JStr("encrypted-content")]),
                            createdAt |-> JNum(Now)])])

deleteSessionUpdate == JObj([t |-> JStr("delete-session"), sid |-> JStr("session-deleted")])

archiveSessionUpdate ==
    JObj([t |-> JStr("archive-session"), sid |-> JStr("session_abc123"),
          archivedAt |-> JNum(Now), archiveReason |-> JStr("revival_failed")])

newMachineUpdate ==
    JObj([t |-> JStr("new-machine"), machineId |-> JStr("machine-abc"), seq |-> JNum(1),
          metadata |-> JStr("encrypted-metadata"), metadataVersion |-> JNum(1),
          daemonState |-> JNull, daemonStateVersion |-> JNum(0), dataEncryptionKey |-> JNull,
          active |-> JBool(TRUE), activeAt |-> JNum(Now), createdAt |-> JNum(Now),
          updatedAt |-> JNum(Now)])

updateMachineUpdate ==
    JObj([t |-> JStr("update-machine"), machineId |-> JStr("machine-xyz"),
          active |-> JBool(TRUE), activeAt |-> JNum(Now)])

deleteMachineUpdate == JObj([t |-> JStr("delete-machine"), machineId |-> JStr("machine_laptop1")])

accountUpdate ==
    JObj([t |-> JStr("update-account"), id |-> JStr("user-123"), firstName |-> JStr("Jane")])

newArtifactUpdate ==
    JObj([t |-> JStr("new-artifact"), artifactId |-> JStr("artifact-1"),
          header |-> JStr("encrypted-header"), headerVersion |-> JNum(1),
          dataEncryptionKey |-> JStr("key"), seq |-> JNum(1), createdAt |-> JNum(Now),
          updatedAt |-> JNum(Now)])

updateArtifactUpdate ==
    JObj([t |-> JStr("update-artifact"), artifactId |-> JStr("artifact-1"),
          header |-> JObj([version |-> JNum(2), value |-> JStr("encrypted-header")])])

deleteArtifactUpdate == JObj([t |-> JStr("delete-artifact"), artifactId |-> JStr("artifact-1")])

relationshipUpdate ==
    JObj([t |-> JStr("relationship-updated"), fromUserId |-> JStr("user-1"),
          toUserId |-> JStr("user-2"), status |-> JStr("friend"), action |-> JStr("updated"),
          timestamp |-> JNum(Now)])

feedPostUpdate ==
    JObj([t |-> JStr("new-feed-post"), id |-> JStr("post-1"),
          body |-> JObj([kind |-> JStr("text"), text |-> JStr("hello")]),
          cursor |-> JStr("cursor-1"), createdAt |-> JNum(Now), repeatKey |-> JNull])

kvBatchUpdate ==
    JObj([t |-> JStr("kv-batch-update"),
          changes |-> JArr(<<JObj([key |-> JStr("k"), value |-> JNull, version |-> JNum(1)])>>)])

activityEphemeral ==
    JObj([type |-> JStr("activity"), sid |-> JStr("session-activity"), active |-> JBool(TRUE),
          activeAt |-> JNum(Now), thinking |-> JBool(FALSE)])

usageEphemeral ==
    JObj([type |-> JStr("usage"), sid |-> JStr("session-usage"), key |-> JStr("cost"),
          timestamp |-> JNum(Now), tokens |-> JObj([total |-> JNum(100)]),
          cost |-> JObj([total |-> JNum(1)])])

machineActivityEphemeral ==
    JObj([type |-> JStr("machine-activity"), machineId |-> JStr("machine-activity-id"),
          active |-> JBool(TRUE), activeAt |-> JNum(Now)])

machineStatusEphemeral ==
    JObj([type |-> JStr("machine-status"), machineId |-> JStr("machine-status-id"),
          online |-> JBool(TRUE), timestamp |-> JNum(Now)])

machineDisconnectedEphemeral ==
    JObj([type |-> JStr("machine-disconnected"), machineId |-> JStr("machine-disconnected-id"),
          reason |-> JStr("disconnected_by_user"), timestamp |-> JNum(Now)])

\* a usage event with every counter the schema of events.ts asks for
fullUsageEphemeral ==
    With(With(usageEphemeral, "tokens",
              JObj([total |-> JNum(100), input |-> JNum(60), output |-> JNum(40),
                    cache_creation |-> JNum(0), cache_read |-> JNum(0)])),
         "cost", JObj([total |-> JNum(1), input |-> JNum(1), output |-> JNum(0)]))

\* the three events whose schema in events.ts keeps the identifier in `id`
activityEvent == Renamed(activityEphemeral, "sid", "id")
usageEvent == Renamed(fullUsageEphemeral, "sid", "id")
machineActivityEvent == Renamed(machineActivityEphemeral, "machineId", "id")

bogusVariant == JObj([t |-> JStr("bogus-variant"), foo |-> JStr("bar")])

DurableFixtures ==
    {newSessionUpdate, updateSessionUpdate, newMessageUpdate, deleteSessionUpdate,
     archiveSessionUpdate, newMachineUpdate, updateMachineUpdate, deleteMachineUpdate,
     accountUpdate, newArtifactUpdate, updateArtifactUpdate, deleteArtifactUpdate,
     relationshipUpdate, feedPostUpdate, kvBatchUpdate}

EphemeralFixtures ==
    {activityEphemeral, usageEphemeral, fullUsageEphemeral, machineActivityEphemeral,
     machineStatusEphemeral, machineDisconnectedEphemeral,
     activityEvent, usageEvent, machineActivityEvent}

RECURSIVE Repeat(_, _)
\* 'x'.repeat(k)
Repeat(text, k) ==
    IF k = 0 THEN ""
    ELSE IF k % 2 = 0 THEN LET half == Repeat(text, k \div 2) IN half \o half
    ELSE text \o Repeat(text, k - 1)

\* the identifiers tried in place of a fixture's: empty, with special
\* characters, of the maximum length and one character longer
IdTexts == {"", "session-123-@#$%^&*()", Repeat("x", ID_MAX), Repeat("x", ID_MAX + 1)}

IdKeys == {"sid", "machineId", "id"}

\* the variations of one fixture: another identifier, the identifier under
\* another of the three names, a property missing, a property of the wrong
\* type, an unknown property, and the other union's discriminator
Variations(v) ==
    {v, With(v, "extra", JStr("x"))}
    \cup {With(v, k, JStr(x)) : k \in (DOMAIN v.o) \cap IdKeys, x \in IdTexts}
    \cup UNION {{Renamed(v, k, to) : to \in IdKeys \ {k}} :
                    k \in (DOMAIN v.o) \cap {"sid", "machineId"}}
    \cup {Without(v, k) : k \in DOMAIN v.o}
    \cup {With(v, k, JNum(7)) : k \in (DOMAIN v.o) \cap (IdKeys \cup {"t", "type", "message"})}
    \cup {With(v, d, JStr(x)) : d \in (DOMAIN v.o) \cap {"t", "type"},
                                 x \in {"bogus-variant", "activity", "new-session"}}
    \cup UNION {{Renamed(v, d, to) : to \in {"t", "type"} \ {d}} :
                    d \in (DOMAIN v.o) \cap {"t", "type"}}

Inputs ==
    UNION {Variations(v) : v \in DurableFixtures \cup EphemeralFixtures}
    \cup {bogusVariant, JStr("new-session"), JNull,
          With(feedPostUpdate, "body", JObj([kind |-> JStr("bogus")])),
          With(activityEvent, "t", JStr("activity")),
          With(newSessionUpdate, "type", JStr("new-session")),
          With(newMessageUpdate, "message", With(newMessageUpdate.o.message, "content",
               JObj([tag |-> JStr("encrypted"), ciphertext |-> JStr("abc")]))),
          With(newMessageUpdate, "message",
               With(newMessageUpdate.o.message, "extra", JStr("x")))}

\* the members of a batch (helpers.test.ts, Integration Patterns)
BatchInputs ==
    {newSessionUpdate, newMachineUpdate, newMessageUpdate, accountUpdate}

MaxBatch == 4

-----------------------------------------------------------------------------
(* The consumer of the package: it is handed a value (alone or as the next *)
(* member of a batch) and applies one operation of the package to it.      *)
(*   value       the value at hand                                         *)
(*   last        the operation last applied to value and what it gave      *)
(*   batch       the updates of the batch received so far                  *)
(*   sessionIds  the session ids last extracted from batch, and how        *)

NoResult == [kind |-> "none", val |-> Undefined]
NoParse == [success |-> FALSE, data |-> Undefined, issues |-> {}]
NoCall == [op |-> "none", out |-> NoResult, parsed |-> NoParse]
NoIds == [pattern |-> "none", ids |-> <<>>]

Init ==
    /\ value \in Inputs
    /\ last = NoCall
    /\ batch = <<>>
    /\ sessionIds = NoIds
    /\ IdleContainers
    /\ IdleErrors
    /\ IdleMetrics
    /\ IdleLint
    /\ IdleAnalytics

\* a value handed over on its own, before any batch
Receive(v) ==
    /\ batch = <<>>
    /\ value' = v
    /\ last' = NoCall
    /\ UNCHANGED <<batch, sessionIds>>
    /\ UNCHANGED beyondProtocol

\* the next update of a batch

ReceiveInBatch(u) ==
    /\ Len(batch) < MaxBatch
    /\ value' = u
    /\ last' = NoCall
    /\ batch' = Append(batch, u)
    /\ sessionIds' = NoIds
    /\ UNCHANGED beyondProtocol

\* ApiUpdateSchema.safeParse(value)
SafeParseUpdate ==
    /\ last' = [op |-> "ApiUpdateSchema.safeParse", out |-> NoResult,
                parsed |-> ApiUpdateSchemaParse(value)]
    /\ UNCHANGED <<value, batch, sessionIds>>
    /\ UNCHANGED beyondProtocol

\* ApiEphemeralUpdateSchema.safeParse(value)
SafeParseEphemeral ==
    /\ last' = [op |-> "ApiEphemeralUpdateSchema.safeParse", out |-> NoResult,
                parsed |-> ApiEphemeralUpdateSchemaParse(value)]
    /\ UNCHANGED <<value, batch, sessionIds>>
    /\ UNCHANGED beyondProtocol

Call(op, out) ==
    /\ value.ty = "object"
    /\ last' = [op |-> op, out |-> out, parsed |-> NoParse]
    /\ UNCHANGED <<value, batch, sessionIds>>
    /\ UNCHANGED beyondProtocol

HasSessionId == Call("hasSessionId", Return(JBool(hasSessionId(value))))
GetSessionId == Call("getSessionId", getSessionId(value))
TryGetSessionId == Call("tryGetSessionId", tryGetSessionId(value))
HasMachineId == Call("hasMachineId", Return(JBool(hasMachineId(value))))
GetMachineId == Call("getMachineId", getMachineId(value))
TryGetMachineId == Call("tryGetMachineId", tryGetMachineId(value))
HasSessionIdEphemeral ==
    Call("hasSessionIdEphemeral", Return(JBool(hasSessionIdEphemeral(value))))
GetSessionIdFromEphemeral == Call("getSessionIdFromEphemeral", getSessionIdFromEphemeral(value))
TryGetSessionIdFromEphemeral ==
    Call("tryGetSessionIdFromEphemeral", tryGetSessionIdFromEphemeral(value))
HasMachineIdEphemeral ==
    Call("hasMachineIdEphemeral", Return(JBool(hasMachineIdEphemeral(value))))
GetMachineIdFromEphemeral == Call("getMachineIdFromEphemeral", getMachineIdFromEphemeral(value))
TryGetMachineIdFromEphemeral ==
    Call("tryGetMachineIdFromEphemeral", tryGetMachineIdFromEphemeral(value))

\* const sessionIds = updates.filter(hasSessionId).map(getSessionId)
FilterHasThenGet ==
    /\ sessionIds' = [pattern |-> "filter-get", ids |-> FilterThenGet(batch)]
    /\ UNCHANGED <<value, last, batch>>
    /\ UNCHANGED beyondProtocol

\* const sessionIds = updates.map(tryGetSessionId).filter(id => id !== undefined)
MapTryGetThenFilter ==
    /\ sessionIds' = [pattern |-> "tryGet-filter", ids |-> TryGetThenFilter(batch)]
    /\ UNCHANGED <<value, last, batch>>
    /\ UNCHANGED beyondProtocol

\* the loop over the mixed updates of a batch, which sorts them into session
\* and machine ones
ProcessMixedUpdates ==
    /\ batch # <<>>
    /\ sessionIds' = [pattern |-> "mixed", ids |-> ProcessMixed(batch)]
    /\ UNCHANGED <<value, last, batch>>
    /\ UNCHANGED beyondProtocol

Next ==
    \/ \E v \in Inputs : Receive(v)
    \/ \E u \in BatchInputs : ReceiveInBatch(u)
    \/ SafeParseUpdate
    \/ SafeParseEphemeral
    \/ HasSessionId
    \/ GetSessionId
    \/ TryGetSessionId
    \/ HasMachineId
    \/ GetMachineId
    \/ TryGetMachineId
    \/ HasSessionIdEphemeral
    \/ GetSessionIdFromEphemeral
    \/ TryGetSessionIdFromEphemeral
    \/ HasMachineIdEphemeral
    \/ GetMachineIdFromEphemeral
    \/ TryGetMachineIdFromEphemeral
    \/ FilterHasThenGet
    \/ MapTryGetThenFilter
    \/ ProcessMixedUpdates

Spec == Init /\ [][Next]_vars

-----------------------------------------------------------------------------
(* What the claims are stated with *)

\* the TypeScript type z.infer gives a variant: its shape without the
\* refinements .min() / .max(), which no type expresses
Unrefined(shape) == [k \in DOMAIN shape |-> [shape[k] EXCEPT !.min = NoLimit, !.max = NoLimit]]
IsMember(shape, v) == ParseObject(Unrefined(shape), v, <<>>).success

\* the variants of the package that v is a member of
VariantsOf(v) == {S \in UpdateVariantSchemas : IsMember(S, v)}

RECURSIVE SidsOfCarriers(_)
\* the sid of each member of us whose variant declares a sid, in the order of us
SidsOfCarriers(us) ==
    IF us = <<>> THEN <<>>
    ELSE LET u == us[Len(us)]
             rest == SidsOfCarriers(SubSeq(us, 1, Len(us) - 1))
         IN IF \E S \in VariantsOf(u) : "sid" \in DOMAIN S
            THEN Append(rest, Return(u.o.sid)) ELSE rest

-----------------------------------------------------------------------------
(* C1: the variants of the package whose schema declares `sid` are          *)
(* new-session, update-session, delete-session, archive-session and         *)
(* new-message; on a member of one of them hasSessionId gives true and      *)
(* getSessionId gives the value of sid as it is (also when empty, over-long *)
(* or with special characters); on a member of any other variant            *)
(* hasSessionId gives false and tryGetSessionId gives undefined.            *)
C1_SessionIdCoverage ==
    /\ {S.t.lit : S \in {X \in UpdateVariantSchemas : "sid" \in DOMAIN X}}
           = {"new-session", "update-session", "delete-session", "archive-session",
              "new-message"}
    /\ \A S \in VariantsOf(value) :
           IF "sid" \in DOMAIN S
           THEN /\ last.op = "hasSessionId" => last.out = Return(JBool(TRUE))
                /\ last.op = "getSessionId" => last.out = Return(value.o.sid)
           ELSE /\ last.op = "hasSessionId" => last.out = Return(JBool(FALSE))
                /\ last.op = "tryGetSessionId" => last.out = Return(Undefined)

\* getSessionId has returned the over-long sid of an update-session unchanged
C1_Witness ==
    /\ value = With(updateSessionUpdate, "sid", JStr(Repeat("x", ID_MAX + 1)))
    /\ ApiUpdateSessionStateSchema \in VariantsOf(value)
    /\ last.op = "getSessionId"
    /\ last.out = Return(JStr(Repeat("x", ID_MAX + 1)))

(* C2: the variants of the package whose schema declares `machineId` are    *)
(* new-machine, update-machine and delete-machine; on a member of one of    *)
(* them hasMachineId gives true and getMachineId gives the value of         *)
(* machineId; on a member of any other variant hasMachineId gives false and *)
(* tryGetMachineId gives undefined.                                         *)
C2_MachineIdCoverage ==
    /\ {S.t.lit : S \in {X \in UpdateVariantSchemas : "machineId" \in DOMAIN X}}
           = {"new-machine", "update-machine", "delete-machine"}
    /\ \A S \in VariantsOf(value) :
           IF "machineId" \in DOMAIN S
           THEN /\ last.op = "hasMachineId" => last.out = Return(JBool(TRUE))
                /\ last.op = "getMachineId" => last.out = Return(value.o.machineId)
           ELSE /\ last.op = "hasMachineId" => last.out = Return(JBool(FALSE))
                /\ last.op = "tryGetMachineId" => last.out = Return(Undefined)

\* tryGetMachineId has answered undefined for a new-message
C2_Witness ==
    /\ value = newMessageUpdate
    /\ ApiUpdateNewMessageSchema \in VariantsOf(value)
    /\ last.op = "tryGetMachineId"
    /\ last.out = Return(Undefined)

C5_BatchSessionIds ==
    sessionIds.pattern \in {"filter-get", "tryGet-filter"} =>
        sessionIds.ids = SidsOfCarriers(batch)

\* the batch of the test has been filtered and mapped
C5_Witness ==
    /\ batch = <<newSessionUpdate, newMachineUpdate, newMessageUpdate, accountUpdate>>
    /\ sessionIds = [pattern |-> "tryGet-filter",
                     ids |-> <<Return(JStr("session-123")), Return(JStr("session-789"))>>]

-----------------------------------------------------------------------------
\* the discriminator values of the two composed unions
UpdateTags == {ApiUpdateSchema[i].t.lit : i \in DOMAIN ApiUpdateSchema}
EphemeralTypes == {ApiEphemeralUpdateSchema[i].type.lit : i \in DOMAIN ApiEphemeralUpdateSchema}

\* the text of the discriminator of v, "" when v has none that is a string
Discriminator(v, disc) == Prop(v, disc).s

\* the identifier an event carries: the value of the identifier key that the
\* alternative accepting it declares
CarriedId(v) ==
    LET i == CHOOSE j \in DOMAIN ApiEphemeralUpdateSchema :
                 ParseObject(ApiEphemeralUpdateSchema[j], v, <<>>).success
        key == CHOOSE k \in (DOMAIN ApiEphemeralUpdateSchema[i]) \cap IdKeys : TRUE
    IN v.o[key]

(* C6: on an ephemeral event (a value the ephemeral union accepts)          *)
(* hasSessionIdEphemeral is true exactly for the types activity and usage   *)
(* and hasMachineIdEphemeral exactly for machine-activity, machine-status   *)
(* and machine-disconnected; the matching get helper returns the id the     *)
(* event carries and the other tryGet helper returns undefined.             *)
C6_EphemeralAccessors ==
    ApiEphemeralUpdateSchemaParse(value).success =>
        LET type == Discriminator(value, "type") IN
        /\ last.op = "hasSessionIdEphemeral" =>
               last.out = Return(JBool(type \in {"activity", "usage"}))
        /\ last.op = "hasMachineIdEphemeral" =>
               last.out = Return(JBool(type \in {"machine-activity", "machine-status",
                                                 "machine-disconnected"}))
        /\ last.op = "getSessionIdFromEphemeral" /\ type \in {"activity", "usage"} =>
               last.out = Return(CarriedId(value))
        /\ last.op = "getMachineIdFromEphemeral"
               /\ type \in {"machine-activity", "machine-status", "machine-disconnected"} =>
               last.out = Return(CarriedId(value))
        /\ last.op = "tryGetMachineIdFromEphemeral" /\ type \in {"activity", "usage"} =>
               last.out = Return(Undefined)
        /\ last.op = "tryGetSessionIdFromEphemeral"
               /\ type \in {"machine-activity", "machine-status", "machine-disconnected"} =>
               last.out = Return(Undefined)

(* C7: a well-formed update (one its own variant schema accepts) of a tag   *)
(* that carries an identifier, with the identifier in sid (session tags) or *)
(* machineId (machine tags), is accepted by the composed update union.      *)
C7_CarriersAreInTheUnion ==
    \A S \in UpdateVariantSchemas :
        /\ last.op = "ApiUpdateSchema.safeParse"
        /\ ParseObject(S, value, <<>>).success
        /\ \/ S.t.lit \in SessionIdUpdateTags /\ Has(value, "sid")
           \/ S.t.lit \in MachineIdUpdateTags /\ Has(value, "machineId")
        => last.parsed.success

(* C8: an object whose t is none of the update tags is rejected by the      *)
(* update union with the single issue invalid_union_discriminator at t; an  *)
(* object with a tag of the union that is rejected for its fields has no    *)
(* such issue, so the two failures can be told apart.                       *)
C8_UnknownDiscriminator ==
    last.op = "ApiUpdateSchema.safeParse" /\ value.ty = "object" =>
        IF Prop(value, "t").ty = "string" /\ Discriminator(value, "t") \in UpdateTags
        THEN ~last.parsed.success =>
                 /\ last.parsed.issues # {}
                 /\ Issue(<<"t">>, "invalid_union_discriminator") \notin last.parsed.issues
        ELSE /\ ~last.parsed.success
             /\ last.parsed.issues = {Issue(<<"t">>, "invalid_union_discriminator")}

\* {t: "bogus-variant", foo: "bar"} has been rejected for its discriminator
C8_Witness ==
    /\ value = bogusVariant
    /\ last.op = "ApiUpdateSchema.safeParse"
    /\ last.parsed = Fail({Issue(<<"t">>, "invalid_union_discriminator")})

(* C9: a value whose t is a type of the ephemeral union is rejected by the  *)
(* update union, and a value whose type is a tag of the update union is     *)
(* rejected by the ephemeral union, whatever the other fields are.          *)
C9_IndependentNamespaces ==
    /\ last.op = "ApiUpdateSchema.safeParse"
           /\ Prop(value, "t").ty = "string" /\ Discriminator(value, "t") \in EphemeralTypes
           => ~last.parsed.success
    /\ last.op = "ApiEphemeralUpdateSchema.safeParse"
           /\ Prop(value, "type").ty = "string"
           /\ Discriminator(value, "type") \in UpdateTags \cup SessionIdUpdateTags
                                               \cup MachineIdUpdateTags
           => ~last.parsed.success

\* an activity event of events.ts whose type was set to new-session has been
\* rejected by the ephemeral union
C9_Witness ==
    /\ value = With(activityEvent, "type", JStr("new-session"))
    /\ last.op = "ApiEphemeralUpdateSchema.safeParse"
    /\ ~last.parsed.success

(* C10: the ephemeral union rejects an object whose type names none of its  *)
(* variants with the unknown-variant issue alone, and an object whose type  *)
(* names a variant with the issues of that variant alone.                   *)
C10_EphemeralDispatch ==
    last.op = "ApiEphemeralUpdateSchema.safeParse" /\ value.ty = "object"
        /\ ~last.parsed.success =>
        LET named == {i \in DOMAIN ApiEphemeralUpdateSchema :
                          Prop(value, "type") = JStr(ApiEphemeralUpdateSchema[i].type.lit)}
        IN IF named = {}
           THEN last.parsed.issues = {Issue(<<"type">>, "invalid_union_discriminator")}
           ELSE \E i \in named :
                    last.parsed.issues = ParseObject(ApiEphemeralUpdateSchema[i], value, <<>>).issues

-----------------------------------------------------------------------------
\* one well-formed event of each of the five types, its identifier in the
\* field the table of identifier fields names (helpers.test.ts 104-143, the
\* usage event with every counter)
TableShapedEvents ==
    {activityEphemeral, fullUsageEphemeral, machineActivityEphemeral, machineStatusEphemeral,
     machineDisconnectedEphemeral}

IdentifierFields == {"sid", "machineId"}

(* C12: the identifier field (sid or machineId) of every variant of the     *)
(* update union declares a maximum length; an otherwise valid update whose  *)
(* identifier has exactly that length is accepted with the identifier       *)
(* unchanged, and one whose identifier is one character longer is rejected  *)
(* with a too_big issue at the identifier.                                  *)
C12_IdentifierLengthBound ==
    last.op = "ApiUpdateSchema.safeParse" =>
        \A i \in DOMAIN ApiUpdateSchema :
            LET S == ApiUpdateSchema[i] IN
            \A k \in IdentifierFields \cap DOMAIN S :
                Prop(value, "t") = JStr(S.t.lit) /\ Prop(value, k).ty = "string" =>
                    /\ S[k].max # NoLimit
                    /\ Len(value.o[k].s) = S[k].max
                           /\ ParseObject(S, With(value, k, JStr("x")), <<>>).success
                           => /\ last.parsed.success
                              /\ last.parsed.data.o[k] = value.o[k]
                    /\ Len(value.o[k].s) = S[k].max + 1
                           => /\ ~last.parsed.success
                              /\ Issue(<<k>>, "too_big") \in last.parsed.issues

RECURSIVE StripUndeclared(_, _)
\* v without the properties the shape does not declare, at every level
StripUndeclared(shape, v) ==
    JObj([k \in (DOMAIN v.o) \cap (DOMAIN shape) |->
            LET z == shape[k]
                x == v.o[k]
            IN IF z.kind = "object" /\ x.ty = "object" THEN StripUndeclared(z.sub, x)
               ELSE IF z.kind = "feedBody" /\ x.ty = "object"
                          /\ Prop(x, "kind").s \in DOMAIN FeedBodySchema
               THEN StripUndeclared(FeedBodySchema[x.o.kind.s], x)
               ELSE IF z.kind = "array" /\ x.ty = "array"
               THEN JArr([i \in DOMAIN x.a |-> StripUndeclared(z.sub, x.a[i])])
               ELSE x])

\* a parse of one of the two unions that succeeded
Validated == /\ last.op \in {"ApiUpdateSchema.safeParse", "ApiEphemeralUpdateSchema.safeParse"}
             /\ last.parsed.success

(* C13 as stated: the output of a successful validation is the input, with  *)
(* no field added, none dropped (also none the variant does not declare)    *)
(* and no value changed.                                                    *)
C13_RoundTrip == Validated => last.parsed.data = value

(* C13: the output of a successful validation is the input without the      *)
(* fields its variant does not declare (at every level of nesting): no      *)
(* field is added, no declared field is dropped and no value is changed, so *)
(* an input with declared fields only comes back structurally equal.        *)
C13_RoundTripOfDeclaredFields ==
    /\ last.op = "ApiUpdateSchema.safeParse" /\ last.parsed.success =>
           \A i \in DOMAIN ApiUpdateSchema :
               Prop(value, "t") = JStr(ApiUpdateSchema[i].t.lit) =>
                   last.parsed.data = StripUndeclared(ApiUpdateSchema[i], value)
    /\ last.op = "ApiEphemeralUpdateSchema.safeParse" /\ last.parsed.success =>
           \A i \in DOMAIN ApiEphemeralUpdateSchema :
               Prop(value, "type") = JStr(ApiEphemeralUpdateSchema[i].type.lit) =>
                   last.parsed.data = StripUndeclared(ApiEphemeralUpdateSchema[i], value)
    /\ Validated /\ value \in DurableFixtures \cup EphemeralFixtures =>
           last.parsed.data = value

\* a new-message with a property its message does not declare has been
\* validated: the output is the fixture without that property
C13_Witness ==
    /\ value = With(newMessageUpdate, "message",
                    With(newMessageUpdate.o.message, "extra", JStr("x")))
    /\ last.op = "ApiUpdateSchema.safeParse"
    /\ last.parsed = Ok(newMessageUpdate)

\* the options of a union that the discriminator of v selects
Selected(options, disc, v) ==
    {i \in DOMAIN options : Prop(v, disc) = JStr(options[i][disc].lit)}

(* C14: within each union no two variants have the same discriminator       *)
(* value: the t of a value given to the update union and the type of a      *)
(* value given to the ephemeral union select at most one variant, and a     *)
(* value is accepted exactly when the variant selected accepts it.          *)
C14_DistinctDiscriminators ==
    /\ Cardinality(UpdateTags) = Len(ApiUpdateSchema)
    /\ Cardinality(EphemeralTypes) = Len(ApiEphemeralUpdateSchema)
    /\ last.op = "ApiUpdateSchema.safeParse" =>
           /\ Cardinality(Selected(ApiUpdateSchema, "t", value)) <= 1
           /\ last.parsed.success <=>
                  \E i \in Selected(ApiUpdateSchema, "t", value) :
                      ParseObject(ApiUpdateSchema[i], value, <<>>).success
    /\ last.op = "ApiEphemeralUpdateSchema.safeParse" =>
           /\ Cardinality(Selected(ApiEphemeralUpdateSchema, "type", value)) <= 1
           /\ last.parsed.success <=>
                  \E i \in Selected(ApiEphemeralUpdateSchema, "type", value) :
                      ParseObject(ApiEphemeralUpdateSchema[i], value, <<>>).success

\* an activity event has been accepted by the ephemeral union, its type
\* selecting the first alternative and no other
C14_Witness ==
    /\ value = activityEvent
    /\ last.op = "ApiEphemeralUpdateSchema.safeParse"
    /\ last.parsed.success
    /\ Selected(ApiEphemeralUpdateSchema, "type", value) = {1}

-----------------------------------------------------------------------------
(* payloads.ts: the container that wraps an update with its sequencing      *)
(* metadata.  A consumer receives a stream of containers and validates them *)
(* one by one, in the order of arrival.                                     *)
(*   stream     the containers received so far                              *)
(*   validated  the result of safeParse for each container validated so far *)

\* body: ApiUpdateSchema
ZApiUpdate == [ZString EXCEPT !.kind = "ApiUpdateSchema"]

ApiUpdateContainerSchema ==
    [id |-> ZString, seq |-> ZNumber, body |-> ZApiUpdate, createdAt |-> ZNumber]

\* ApiUpdateContainerSchema.safeParse(v): ZodObject._parse, the body parsed by
\* the update union and the issues of all four fields reported together
ApiUpdateContainerSchemaParse(v) ==
    IF v.ty # "object" THEN Fail({Issue(<<>>, "invalid_type")})
    ELSE LET envelope ==
                 ParseObject([k \in (DOMAIN ApiUpdateContainerSchema) \ {"body"} |->
                                  ApiUpdateContainerSchema[k]], v, <<>>)
             body == ParseDiscriminatedUnion("t", ApiUpdateSchema, Prop(v, "body"), <<"body">>)
             issues == envelope.issues \cup body.issues
         IN IF issues = {} THEN Ok(With(envelope.data, "body", body.data)) ELSE Fail(issues)

container(id, seq, body) ==
    JObj([id |-> JStr(id), seq |-> seq, body |-> body, createdAt |-> JNum(Now)])

\* the containers a stream is made of: two ids, two sequence numbers (so that
\* a stream has gaps, duplicates and decreasing values), a valid and an
\* invalid body, and one container whose seq is no number
Containers ==
    {container(id, JNum(seq), body) : id \in {"upd-a", "upd-b"}, seq \in {1, 3},
                                      body \in {newMessageUpdate, bogusVariant}}
    \cup {container("upd-a", JStr("1"), newMessageUpdate)}

MaxStream == 3

IdleProtocol ==
    /\ value = JNull
    /\ last = NoCall
    /\ batch = <<>>
    /\ sessionIds = NoIds

InitContainers ==
    /\ stream = <<>>
    /\ validated = <<>>
    /\ IdleProtocol
    /\ IdleErrors
    /\ IdleMetrics
    /\ IdleLint
    /\ IdleAnalytics

ReceiveContainer(c) ==
    /\ Len(stream) < MaxStream
    /\ stream' = Append(stream, c)
    /\ UNCHANGED validated
    /\ UNCHANGED beyondContainers

\* validation that also asks each seq to be greater than the one before it
ValidateNextInOrder ==
    /\ Len(validated) < Len(stream)
    /\ LET i == Len(validated) + 1
           r == ApiUpdateContainerSchemaParse(stream[i])
       IN validated' = Append(validated,
              IF r.success /\ i > 1 /\ stream[i - 1].o.seq.n >= stream[i].o.seq.n
              THEN Fail({Issue(<<"seq">>, "custom")}) ELSE r)
    /\ UNCHANGED stream
    /\ UNCHANGED beyondContainers

\* ApiUpdateContainerSchema.safeParse of the oldest container not yet validated
ValidateNext ==
    /\ Len(validated) < Len(stream)
    /\ validated' = Append(validated,
                           ApiUpdateContainerSchemaParse(stream[Len(validated) + 1]))
    /\ UNCHANGED stream
    /\ UNCHANGED beyondContainers

NextContainers ==
    \/ \E c \in Containers : ReceiveContainer(c)
    \/ ValidateNext

SpecContainers == InitContainers /\ [][NextContainers]_vars

\* c has a string id, numeric seq and createdAt, and a body the update union accepts
ValidContainer(c) ==
    /\ Prop(c, "id").ty = "string"
    /\ Prop(c, "seq").ty = "number"
    /\ Prop(c, "createdAt").ty = "number"
    /\ ApiUpdateSchemaParse(Prop(c, "body")).success

(* C15: in any stream of containers, each container with a valid body (and  *)
(* a well-typed id, seq and createdAt) is accepted whatever its seq is      *)
(* relative to the others, and the result at its position carries its own   *)
(* id and its own seq; a container is rejected only for what it holds.      *)
C15_SeqIsOnlyCarried ==
    /\ Len(validated) <= Len(stream)
    /\ \A i \in DOMAIN validated :
           /\ validated[i].success <=> ValidContainer(stream[i])
           /\ validated[i].success =>
                  /\ validated[i].data.o.seq = stream[i].o.seq
                  /\ validated[i].data.o.id = stream[i].o.id
                  /\ validated[i].data.o.body = stream[i].o.body

\* a stream with a gap, a decreasing and a repeated seq has been validated
\* down to its last container
C15_Witness ==
    /\ Len(stream) = 3
    /\ Len(validated) = 3
    /\ <<stream[1].o.seq, stream[2].o.seq, stream[3].o.seq>> = <<JNum(3), JNum(1), JNum(1)>>
    /\ \A i \in 1..3 : validated[i].success /\ validated[i].data.o.seq = stream[i].o.seq

-----------------------------------------------------------------------------
(* @happy/errors: AppError and the safe error responses (HAP-630).          *)
(* A thrown value is a record: class is its constructor ("AppError",        *)
(* "Error", "TypeError") or, for a value that is no Error, its typeof       *)
(* ("object", "string", "undefined"; "null" for null); text is String(err); *)
(* status is the value of its `status` property.                            *)
(*   calls       the calls of createSafeError made so far: the value, the   *)
(*               options and the response                                   *)
(*   log         what the logger was given by each call                     *)
(*   clock       the time, read by new Date()                               *)
(*   caught      the value given to getErrorStatusCode                      *)
(*   statusCode  the status it returned (0: not called yet)                 *)

ErrorCodes ==
    {"AUTH_FAILED", "NOT_AUTHENTICATED", "TOKEN_EXPIRED", "ENCRYPTION_ERROR",
     "DECRYPTION_FAILED", "INVALID_INPUT", "VALIDATION_FAILED", "NOT_FOUND", "INTERNAL_ERROR",
     "CONNECT_FAILED", "NO_RESPONSE", "REQUEST_CONFIG_ERROR", "TOKEN_EXCHANGE_FAILED",
     "SESSION_NOT_FOUND", "DAEMON_START_FAILED", "PROCESS_TIMEOUT", "VERSION_MISMATCH",
     "LOCK_ACQUISITION_FAILED", "DIRECTORY_REQUIRED", "RESOURCE_NOT_FOUND", "NONCE_TOO_SHORT",
     "OPERATION_CANCELLED", "OPERATION_FAILED", "UNSUPPORTED_OPERATION",
     "SESSION_REVIVAL_FAILED", "QUEUE_CLOSED", "ALREADY_STARTED", "UNKNOWN_ERROR",
     "INVALID_KEY", "SOCKET_NOT_CONNECTED", "RPC_CANCELLED", "RPC_FAILED", "SYNC_FAILED",
     "API_ERROR", "FETCH_FAILED", "FETCH_ABORTED", "TIMEOUT", "VERSION_CONFLICT",
     "ALREADY_EXISTS", "NOT_CONFIGURED", "PRODUCT_NOT_FOUND", "SERVICE_ERROR",
     "SERVICE_NOT_CONNECTED", "AUTH_NOT_INITIALIZED", "INVARIANT_VIOLATION", "CONFIG_ERROR"}

\* new <name>(message), thrown at `where`
ErrorOf(name, message, where) ==
    [class |-> name, message |-> message, text |-> name \o ": " \o message,
     stack |-> name \o ": " \o message \o "\n    at " \o where,
     code |-> "", canTryAgain |-> FALSE, context |-> Undefined, status |-> Undefined]

\* new AppError(code, message, { canTryAgain, context })
AppErrorOf(code, message, canTryAgain, context) ==
    [ErrorOf("AppError", message, "handler (/srv/app/src/routes.ts:10:5)")
         EXCEPT !.code = code, !.canTryAgain = canTryAgain, !.context = context]

\* a thrown value that is no Error
NonError(type, text, status) ==
    [class |-> type, message |-> "", text |-> text, stack |-> "",
     code |-> "", canTryAgain |-> FALSE, context |-> Undefined, status |-> status]

\* err instanceof Error
InstanceOfError(err) == err.class \in {"AppError", "Error", "TypeError"}

\* AppError.isAppError(error)
isAppError(err) == err.class = "AppError"

\* s.includes(sub)
Includes(text, sub) ==
    \E i \in 1..(Len(text) - Len(sub) + 1) : SubSeq(text, i, i + Len(sub) - 1) = sub

\* const { requestId, isDevelopment = false } = options
IsDevelopment(options) == options.isDevelopment = JBool(TRUE)

\* the truthiness of a value: undefined, null, '', 0 and false are falsy
Truthy(v) == v \notin {Undefined, JNull, JStr(""), JNum(0), JBool(FALSE)}

\* new Date().toISOString() at time t
toISOString(t) == "2026-01-01T00:00:00.00" \o ToString(t) \o "Z"

\* getSafeMessage that shows the message of every error
getSafeMessageVerbose(error, isDevelopment) == error.message

getSafeMessage(error, isDevelopment) ==
    IF isAppError(error) THEN error.message
    ELSE IF isDevelopment THEN error.message
    ELSE "An unexpected error occurred"

\* const error = err instanceof Error ? err : new Error(String(err))
Normalized(err) ==
    IF InstanceOfError(err) THEN err
    ELSE ErrorOf("Error", err.text, "createSafeError (safeError.ts:96:51)")

\* the arguments createSafeError gives the logger
Logged(err, options) ==
    LET error == Normalized(err)
    IN [requestId |-> options.requestId, message |-> error.message, stack |-> error.stack,
        context |-> IF isAppError(error) THEN error.context ELSE Undefined]

\* the response createSafeError returns at time now
createSafeError(err, options, now) ==
    LET error == Normalized(err)
        response == JObj([error |-> JStr(getSafeMessage(error, IsDevelopment(options))),
                          timestamp |-> JStr(toISOString(now))])
        coded == IF ~isAppError(error) THEN response
                 ELSE IF error.canTryAgain
                 THEN With(With(response, "code", JStr(error.code)), "canTryAgain", JBool(TRUE))
                 ELSE With(response, "code", JStr(error.code))
    IN IF Truthy(options.requestId) THEN With(coded, "requestId", options.requestId)
       ELSE coded

clientErrors ==
    {"NOT_FOUND", "SESSION_NOT_FOUND", "RESOURCE_NOT_FOUND", "PRODUCT_NOT_FOUND",
     "INVALID_INPUT", "VALIDATION_FAILED", "INVALID_KEY", "NONCE_TOO_SHORT",
     "DIRECTORY_REQUIRED"}

authErrors ==
    {"NOT_AUTHENTICATED", "AUTH_FAILED", "AUTH_NOT_INITIALIZED", "TOKEN_EXPIRED",
     "TOKEN_EXCHANGE_FAILED"}

conflictErrors == {"ALREADY_EXISTS", "ALREADY_STARTED", "VERSION_CONFLICT", "VERSION_MISMATCH"}

\* every client error answered with 400
getStatusCodeFromErrorCodeAllBadRequest(code) ==
    IF code \in clientErrors THEN 400
    ELSE IF code \in authErrors THEN 401
    ELSE IF code \in conflictErrors THEN 409
    ELSE 500

getStatusCodeFromErrorCode(code) ==
    IF code \in clientErrors THEN (IF Includes(code, "NOT_FOUND") THEN 404 ELSE 400)
    ELSE IF code \in authErrors THEN 401
    ELSE IF code \in conflictErrors THEN 409
    ELSE 500

\* type ErrorStatusCode
ErrorStatusCode == {400, 401, 403, 404, 409, 500, 502, 503}

getErrorStatusCode(err) ==
    IF isAppError(err) THEN getStatusCodeFromErrorCode(err.code)
    ELSE IF err.class \notin {"string", "undefined", "null"} /\ err.status # Undefined
                /\ err.status.ty = "number"
    THEN (IF err.status.n \in ErrorStatusCode THEN err.status.n ELSE 500)
    ELSE 500

\* the errors a handler meets: library errors with internal details in their
\* message, thrown values that are no Error, and AppErrors
internalErrors ==
    {ErrorOf("TypeError", "Cannot read property 'x' of undefined",
             "getUser (/srv/app/src/db.ts:42:13)"),
     ErrorOf("Error", "ECONNREFUSED 127.0.0.1:5432", "connect (node:net:1300:16)"),
     ErrorOf("Error", "ECONNREFUSED 127.0.0.1:5432", "retry (/srv/app/src/pool.ts:7:3)"),
     [ErrorOf("Error", "Not Found", "dispatch (hono/compose.js:29:23)")
          EXCEPT !.status = JNum(404)],
     NonError("string", "Prisma query failed: SELECT * FROM users", Undefined),
     NonError("object", "[object Object]", JNum(503)),
     NonError("undefined", "undefined", Undefined)}

appErrors ==
    {AppErrorOf("AUTH_FAILED", "Session expired", FALSE, Undefined),
     AppErrorOf("FETCH_FAILED", "Network error", TRUE, Undefined),
     AppErrorOf("API_ERROR", "Failed to fetch data", TRUE,
                JObj([url |-> JStr("/api/data"), attemptNumber |-> JNum(3)]))}

ThrownValues == internalErrors \cup appErrors

\* the options of a call: requestId and isDevelopment, each given or not
SafeErrorOptions ==
    {[requestId |-> r, isDevelopment |-> d] :
         r \in {Undefined, JStr("req-1")}, d \in {Undefined, JBool(FALSE), JBool(TRUE)}}
    \cup {[requestId |-> JStr(""), isDevelopment |-> JBool(FALSE)]}

MaxClock == 2

InitSafeError ==
    /\ calls = <<>>
    /\ log = <<>>
    /\ clock = 0
    /\ caught = Undefined
    /\ statusCode = 0
    /\ IdleProtocol
    /\ IdleContainers
    /\ IdleMetrics
    /\ IdleLint
    /\ IdleAnalytics

\* createSafeError(err, options): the error is logged and the response built
CreateSafeError(err, options) ==
    /\ clock < MaxClock
    /\ clock' = clock + 1
    /\ log' = Append(log, Logged(err, options))
    /\ calls' = Append(calls, [err |-> err, options |-> options,
                               response |-> createSafeError(err, options, clock)])
    /\ UNCHANGED <<caught, statusCode>>
    /\ UNCHANGED beyondErrors

NextSafeError == \E err \in ThrownValues, options \in SafeErrorOptions : CreateSafeError(err, options)

SpecSafeError == InitSafeError /\ [][NextSafeError]_vars

\* the fields of SafeErrorResponse
SafeErrorResponseFields == {"error", "code", "requestId", "timestamp", "canTryAgain"}

(* C16: with isDevelopment false, two calls of createSafeError with values  *)
(* that are no AppError (and the same requestId) give responses equal in    *)
(* every field but timestamp, whose error is 'An unexpected error occurred' *)
(* whatever the message, the stack and the kind of the value; and no        *)
(* response of any call has a field holding the stack trace or the context, *)
(* which go to the logger only.                                             *)
C16_NoInternalDetails ==
    /\ \A i, j \in DOMAIN calls :
           LET a == calls[i]
               b == calls[j]
           IN ~IsDevelopment(a.options) /\ ~IsDevelopment(b.options)
                  /\ ~isAppError(a.err) /\ ~isAppError(b.err)
                  /\ a.options.requestId = b.options.requestId
              => /\ Without(a.response, "timestamp") = Without(b.response, "timestamp")
                 /\ a.response.o.error = JStr("An unexpected error occurred")
    /\ \A i \in DOMAIN calls :
           LET response == calls[i].response
               error == Normalized(calls[i].err)
           IN /\ DOMAIN response.o \subseteq SafeErrorResponseFields
              /\ \A k \in DOMAIN response.o :
                     /\ response.o[k].ty \in {"string", "boolean"}
                     /\ ~Includes(response.o[k].s, error.stack)
                     /\ ~Includes(response.o[k].s, "\n    at ")
              /\ log[i].stack = error.stack

\* a TypeError and a thrown string have been answered in production with the
\* same request id: the two responses differ in their timestamp only
C16_Witness ==
    /\ Len(calls) = 2
    /\ calls[1].err = ErrorOf("TypeError", "Cannot read property 'x' of undefined",
                              "getUser (/srv/app/src/db.ts:42:13)")
    /\ calls[2].err = NonError("string", "Prisma query failed: SELECT * FROM users", Undefined)
    /\ calls[1].options = [requestId |-> JStr("req-1"), isDevelopment |-> Undefined]
    /\ calls[2].options = [requestId |-> JStr("req-1"), isDevelopment |-> JBool(FALSE)]
    /\ calls[1].response # calls[2].response
    /\ Without(calls[1].response, "timestamp") =
           JObj([error |-> JStr("An unexpected error occurred"), requestId |-> JStr("req-1")])
    /\ Without(calls[2].response, "timestamp") = Without(calls[1].response, "timestamp")

-----------------------------------------------------------------------------
(* An error handler that needs the HTTP status of what it caught.           *)

\* the values of a `status` property: every ErrorStatusCode, other HTTP
\* statuses, something that is no number, and none
StatusValues ==
    {JNum(n) : n \in ErrorStatusCode \cup {200, 302, 418, 422, 504}}
    \cup {JStr("404"), JNull, Undefined}

\* the values a handler catches: an AppError of each code (retryable or not,
\* also one that has a status property of its own), errors and plain objects
\* with each status, and values that are no object
CaughtValues ==
    {AppErrorOf(code, "Failed", canTryAgain, Undefined) :
         code \in ErrorCodes, canTryAgain \in BOOLEAN}
    \cup {[AppErrorOf(code, "Failed", FALSE, Undefined) EXCEPT !.status = JNum(403)] :
              code \in {"NOT_FOUND", "INTERNAL_ERROR"}}
    \cup {[ErrorOf("Error", "HTTPException", "dispatch (hono/compose.js:29:23)")
               EXCEPT !.status = st] : st \in StatusValues}
    \cup {NonError("object", "[object Object]", st) : st \in StatusValues}
    \cup {NonError("string", "boom", Undefined), NonError("null", "null", Undefined),
          NonError("undefined", "undefined", Undefined)}

InitStatusCode ==
    /\ caught \in CaughtValues
    /\ statusCode = 0
    /\ calls = <<>>
    /\ log = <<>>
    /\ clock = 0
    /\ IdleProtocol
    /\ IdleContainers
    /\ IdleMetrics
    /\ IdleLint
    /\ IdleAnalytics

\* the handler catches another value
Catch(err) ==
    /\ caught' = err
    /\ statusCode' = 0
    /\ UNCHANGED <<calls, log, clock>>
    /\ UNCHANGED beyondErrors

\* getErrorStatusCode(caught)
GetErrorStatusCode ==
    /\ statusCode' = getErrorStatusCode(caught)
    /\ UNCHANGED <<caught, calls, log, clock>>
    /\ UNCHANGED beyondErrors

NextStatusCode ==
    \/ \E err \in CaughtValues : Catch(err)
    \/ GetErrorStatusCode

SpecStatusCode == InitStatusCode /\ [][NextStatusCode]_vars

(* C17: getErrorStatusCode returns one of 400, 401, 403, 404, 409, 500, 502 *)
(* and 503 for every value.  For an AppError the status follows from the    *)
(* code alone: 404 for the four NOT_FOUND codes, 400 for the other client   *)
(* codes, 401 for the auth codes, 409 for the conflict codes and 500 for    *)
(* every other code.  For any other value it is the numeric status property *)
(* when that is one of the eight, and 500 otherwise.                        *)
C17_StatusCode ==
    statusCode # 0 =>
        /\ statusCode \in {400, 401, 403, 404, 409, 500, 502, 503}
        /\ isAppError(caught) =>
               statusCode =
                   CASE caught.code \in {"NOT_FOUND", "SESSION_NOT_FOUND", "RESOURCE_NOT_FOUND",
                                         "PRODUCT_NOT_FOUND"} -> 404
                     [] caught.code \in {"INVALID_INPUT", "VALIDATION_FAILED", "INVALID_KEY",
                                         "NONCE_TOO_SHORT", "DIRECTORY_REQUIRED"} -> 400
                     [] caught.code \in {"NOT_AUTHENTICATED", "AUTH_FAILED",
                                         "AUTH_NOT_INITIALIZED", "TOKEN_EXPIRED",
                                         "TOKEN_EXCHANGE_FAILED"} -> 401
                     [] caught.code \in {"ALREADY_EXISTS", "ALREADY_STARTED", "VERSION_CONFLICT",
                                         "VERSION_MISMATCH"} -> 409
                     [] OTHER -> 500
        /\ ~isAppError(caught) =>
               statusCode =
                   IF caught.status.ty = "number"
                          /\ caught.status.n \in {400, 401, 403, 404, 409, 500, 502, 503}
                   THEN caught.status.n ELSE 500

\* a retryable AppError SESSION_NOT_FOUND has been mapped to 404
C17_Witness ==
    /\ caught = AppErrorOf("SESSION_NOT_FOUND", "Failed", TRUE, Undefined)
    /\ statusCode = 404

-----------------------------------------------------------------------------
(* The metrics routes of the admin API (routes/metrics.ts): each handler    *)
(* builds an SQL text, sends it to the Analytics Engine and reshapes the    *)
(* rows into {data, timestamp}.  The indentation of the SQL templates is    *)
(* written as one space.                                                    *)
(*   request  the request at hand: its route, the environment, its         *)
(*            validated query and what the Analytics Engine does with it    *)
(*   sent     the SQL text sent to the Analytics Engine ("" when none was)  *)
(*   reply    the status and body of the answer (status 0: none yet)        *)

\* parseInt(text, 10): leading blanks, a sign, then the digits up to the first
\* character that is none; nan when there is no digit
CharAt(text, i) == SubSeq(text, i, i)
IsDigit(ch) == \E d \in 1..10 : CharAt("0123456789", d) = ch
DigitValue(ch) == CHOOSE d \in 0..9 : CharAt("0123456789", d + 1) = ch

RECURSIVE SkipBlanks(_, _)
SkipBlanks(text, i) ==
    IF i <= Len(text) /\ CharAt(text, i) = " " THEN SkipBlanks(text, i + 1) ELSE i

RECURSIVE ReadDigits(_, _, _)
\* the number read from position i on, acc being the digits read so far
ReadDigits(text, i, acc) ==
    IF i <= Len(text) /\ IsDigit(CharAt(text, i))
    THEN ReadDigits(text, i + 1, 10 * acc + DigitValue(CharAt(text, i)))
    ELSE acc

parseInt(text) ==
    LET start == SkipBlanks(text, 1)
        signed == start <= Len(text) /\ CharAt(text, start) \in {"-", "+"}
        first == IF signed THEN start + 1 ELSE start
        magnitude == ReadDigits(text, first, 0)
    IN IF first > Len(text) \/ ~IsDigit(CharAt(text, first)) THEN [nan |-> TRUE, n |-> 0]
       ELSE [nan |-> FALSE,
             n |-> IF signed /\ CharAt(text, start) = "-" THEN 0 - magnitude ELSE magnitude]

\* parseInt(text, 10) || fallback: NaN and 0 are falsy
parseIntOr(text, fallback) ==
    IF parseInt(text).nan \/ parseInt(text).n = 0 THEN fallback ELSE parseInt(text).n

\* const { name = fallback } = c.req.valid('query')
Defaulted(query, name, fallback) ==
    IF query[name] = Undefined THEN fallback ELSE query[name].s

\* c.env.ENVIRONMENT === 'production' ? 'prod' : 'dev'
Dataset(env) == IF env.ENVIRONMENT = "production" THEN "prod" ELSE "dev"

summarySql(env) ==
    "\n SELECT\n blob1 as syncType,\n blob2 as syncMode,\n COUNT(*) as count,"
    \o "\n AVG(double1) as avgDurationMs,\n quantile(0.95)(double1) as p95DurationMs,"
    \o "\n SUM(CASE WHEN double2 = 1 THEN 1 ELSE 0 END) / COUNT(*) as successRate"
    \o "\n FROM sync_metrics_" \o Dataset(env)
    \o "\n WHERE timestamp > NOW() - INTERVAL '24' HOUR\n GROUP BY blob1, blob2"
    \o "\n ORDER BY count DESC\n "

hoursNum(query) == parseIntOr(Defaulted(query, "hours", "24"), 24)

timeseriesSql(env, query) ==
    "\n SELECT\n toStartOf"
    \o (IF Defaulted(query, "bucket", "hour") = "day" THEN "Day" ELSE "Hour")
    \o "(timestamp) as timestamp,\n COUNT(*) as count,\n AVG(double1) as avgDurationMs"
    \o "\n FROM sync_metrics_" \o Dataset(env)
    \o "\n WHERE timestamp > NOW() - INTERVAL '" \o ToString(hoursNum(query))
    \o "' HOUR\n GROUP BY timestamp\n ORDER BY timestamp ASC\n "

cacheHitsSql(env) ==
    "\n SELECT\n SUM(CASE WHEN blob3 = 'hit' THEN 1 ELSE 0 END) as hits,"
    \o "\n SUM(CASE WHEN blob3 = 'miss' THEN 1 ELSE 0 END) as misses"
    \o "\n FROM sync_metrics_" \o Dataset(env)
    \o "\n WHERE timestamp > NOW() - INTERVAL '24' HOUR\n AND blob1 = 'profile'\n "

modeDistributionSql(env) ==
    "\n SELECT\n blob2 as mode,\n COUNT(*) as count"
    \o "\n FROM sync_metrics_" \o Dataset(env)
    \o "\n WHERE timestamp > NOW() - INTERVAL '24' HOUR\n GROUP BY blob2\n "

daysNum(query) == parseIntOr(Defaulted(query, "days", "30"), 30)

\* const platformFilter = platform ? `AND blob1 = '${platform}'` : ''
platformFilter(query) ==
    IF query.platform = Undefined \/ query.platform = JStr("") THEN ""
    ELSE "AND blob1 = '" \o query.platform.s \o "'"

bundleTrendsSql(env, query) ==
    "\n SELECT\n toStartOfDay(timestamp) as date,\n blob1 as platform,"
    \o "\n AVG(double3) as avgTotalSize,\n AVG(double1) as avgJsSize,"
    \o "\n AVG(double2) as avgAssetsSize,\n COUNT(*) as buildCount"
    \o "\n FROM bundle_metrics_" \o Dataset(env)
    \o "\n WHERE timestamp > NOW() - INTERVAL '" \o ToString(daysNum(query))
    \o "' DAY\n AND blob2 = '" \o Defaulted(query, "branch", "main")
    \o "'\n " \o platformFilter(query)
    \o "\n GROUP BY date, blob1\n ORDER BY date ASC\n "

bundleLatestSql(env) ==
    "\n SELECT\n blob1 as platform,\n blob2 as branch,\n blob3 as commitHash,"
    \o "\n double3 as totalSize,\n double1 as jsSize,\n double2 as assetsSize,\n timestamp"
    \o "\n FROM bundle_metrics_" \o Dataset(env)
    \o "\n WHERE timestamp > NOW() - INTERVAL '7' DAY\n AND blob2 = 'main'"
    \o "\n ORDER BY timestamp DESC\n LIMIT 10\n "

\* A number that is no integer is its integral part n and, in a, the rest as
\* a fraction <<numerator, denominator>>: x / y of JavaScript
JQuotient(x, y) ==
    IF x % y = 0 THEN JNum(x \div y) ELSE [JNum(x \div y) EXCEPT !.a = <<x % y, y>>]

\* Math.round(v): halves go up
MathRound(v) ==
    IF v.a = <<>> THEN v ELSE JNum(IF 2 * v.a[1] >= v.a[2] THEN v.n + 1 ELSE v.n)

\* new Date(now.getTime() - h * 60 * 60 * 1000).toISOString()
isoHoursAgo(h) == "now-" \o ToString(h) \o "h"

Configured(env) == env.ANALYTICS_ACCOUNT_ID # "" /\ env.ANALYTICS_API_TOKEN # ""

\* what the Analytics Engine does with a query: the request fails, the
\* response is not OK, its body is no JSON, or it is OK with a JSON value
NotConfigured == [kind |-> "not-configured", json |-> Undefined]
Rejects == [kind |-> "rejects", json |-> Undefined]
NonOk == [kind |-> "non-ok", json |-> Undefined]
BadJson == [kind |-> "bad-json", json |-> Undefined]
OkJson(json) == [kind |-> "ok", json |-> json]

\* queryAnalyticsEngine(env, sql): null, the JSON of the response, or the
\* exception of fetch() or of response.json(), which it does not catch
queryAnalyticsEngine(env, engine) ==
    IF ~Configured(env) THEN Return(JNull)
    ELSE CASE engine.kind = "rejects" -> Fault
           [] engine.kind = "non-ok" -> Return(JNull)
           [] engine.kind = "bad-json" -> Fault
           [] engine.kind = "ok" -> Return(engine.json)

\* result?.data
ResultData(result) == IF result.ty = "object" THEN Prop(result, "data") ELSE Undefined

\* x ?? y
Coalesce(x, y) == IF x \in {Undefined, JNull} THEN y ELSE x

mockSummary ==
    JArr(<<JObj([syncType |-> JStr("session"), syncMode |-> JStr("full"), count |-> JNum(150),
                 avgDurationMs |-> JQuotient(2455, 10), p95DurationMs |-> JNum(890),
                 successRate |-> JQuotient(98, 100)]),
           JObj([syncType |-> JStr("session"), syncMode |-> JStr("incremental"),
                 count |-> JNum(450), avgDurationMs |-> JQuotient(852, 10),
                 p95DurationMs |-> JNum(210), successRate |-> JQuotient(99, 100)])>>)

summaryData(result) == Coalesce(ResultData(result), mockSummary)

\* generateMockTimeseries(hours, bucket); random is what Math.random() gives,
\* in hundredths
generateMockTimeseries(hours, bucket, random) ==
    LET bucketSize == IF bucket = "day" THEN 24 ELSE 1
        numBuckets == 0 - ((0 - hours) \div bucketSize)
    IN JArr([k \in 1..numBuckets |->
                JObj([timestamp |-> JStr(isoHoursAgo((numBuckets - k) * bucketSize)),
                      count |-> JNum((random * 50) \div 100 + 10),
                      avgDurationMs |-> JNum((random * 200) \div 100 + 50)])])

timeseriesData(result, query, random) ==
    Coalesce(ResultData(result),
             generateMockTimeseries(hoursNum(query), Defaulted(query, "bucket", "hour"), random))

cacheHitsData(result) ==
    LET data == ResultData(result) IN
    IF Truthy(data) /\ data.ty = "array" /\ Len(data.a) > 0
    THEN LET row == data.a[1]
             total == row.o.hits.n + row.o.misses.n
         IN JObj([hits |-> row.o.hits, misses |-> row.o.misses,
                  hitRate |-> IF total > 0 THEN JQuotient(row.o.hits.n, total) ELSE JNum(0)])
    ELSE JObj([hits |-> JNum(850), misses |-> JNum(150), hitRate |-> JQuotient(85, 100)])

RECURSIVE SumOf(_, _)
\* Object.values(modeMap).reduce((a, b) => a + b, 0)
SumOf(modeMap, modes) ==
    IF modes = {} THEN 0
    ELSE LET m == CHOOSE x \in modes : TRUE IN modeMap[m] + SumOf(modeMap, modes \ {m})

modeDistributionData(result) ==
    LET data == ResultData(result) IN
    IF Truthy(data) /\ data.ty = "array"
    THEN LET rows == data.a
             modes == {rows[i].o.mode.s : i \in DOMAIN rows}
             \* modeMap[row.mode] = row.count, row after row: the last one stays
             modeMap == [m \in modes |->
                            LET i == CHOOSE j \in DOMAIN rows :
                                         /\ rows[j].o.mode.s = m
                                         /\ \A k \in DOMAIN rows : rows[k].o.mode.s = m => k <= j
                            IN rows[i].o.count.n]
             count(m) == IF m \in modes THEN modeMap[m] ELSE 0
         IN JObj([full |-> JNum(count("full")), incremental |-> JNum(count("incremental")),
                  cached |-> JNum(count("cached")), total |-> JNum(SumOf(modeMap, modes))])
    ELSE JObj([full |-> JNum(200), incremental |-> JNum(450), cached |-> JNum(350),
               total |-> JNum(1000)])

\* generateMockBundleTrends(days, platform)
generateMockBundleTrends(days, platform, random) ==
    LET p == IF Truthy(platform) THEN platform ELSE JStr("web")
        variance == (random * 20000) \div 100 - 10000
    IN JArr([k \in 1..days |->
                LET i == days - k
                    totalSize == 1500000 + (days - i) * 1000 + variance
                    jsSize == (totalSize * 7) \div 10
                IN JObj([date |-> JStr(isoHoursAgo(i * 24)), platform |-> p,
                         avgTotalSize |-> JNum(totalSize), avgJsSize |-> JNum(jsSize),
                         avgAssetsSize |-> JNum(totalSize - jsSize),
                         buildCount |-> JNum((random * 5) \div 100 + 1)])])

bundleTrendsData(result, query, random) ==
    LET data == ResultData(result) IN
    IF Truthy(data) /\ data.ty = "array" /\ Len(data.a) > 0
    THEN JArr([i \in DOMAIN data.a |->
                  LET row == data.a[i]
                  IN JObj([date |-> row.o.date, platform |-> row.o.platform,
                           avgTotalSize |-> MathRound(row.o.avgTotalSize),
                           avgJsSize |-> MathRound(row.o.avgJsSize),
                           avgAssetsSize |-> MathRound(row.o.avgAssetsSize),
                           buildCount |-> row.o.buildCount])])
    ELSE generateMockBundleTrends(daysNum(query), query.platform, random)

\* the value platformMap.set gives a platform
LatestEntry(row) ==
    JObj([platform |-> row.o.platform, branch |-> row.o.branch,
          commitHash |-> row.o.commitHash, totalSize |-> MathRound(row.o.totalSize),
          jsSize |-> MathRound(row.o.jsSize), assetsSize |-> MathRound(row.o.assetsSize),
          timestamp |-> row.o.timestamp])

RECURSIVE platformMapLastWins(_, _, _)
\* the loop that sets the entry of a platform for every row of it
platformMapLastWins(rows, i, entries) ==
    IF i > Len(rows) THEN entries
    ELSE IF \E k \in DOMAIN entries : entries[k].o.platform = rows[i].o.platform
    THEN platformMapLastWins(rows, i + 1,
             [k \in DOMAIN entries |->
                  IF entries[k].o.platform = rows[i].o.platform THEN LatestEntry(rows[i])
                  ELSE entries[k]])
    ELSE platformMapLastWins(rows, i + 1, Append(entries, LatestEntry(rows[i])))

RECURSIVE platformMap(_, _, _)
\* for (const row of result.data) if (!platformMap.has(row.platform))
\* platformMap.set(...): entries is Array.from(platformMap.values()), a Map
\* keeping its keys in the order of insertion
platformMap(rows, i, entries) ==
    IF i > Len(rows) THEN entries
    ELSE IF \E k \in DOMAIN entries : entries[k].o.platform = rows[i].o.platform
    THEN platformMap(rows, i + 1, entries)
    ELSE platformMap(rows, i + 1, Append(entries, LatestEntry(rows[i])))

bundleLatestData(result) ==
    LET data == ResultData(result) IN
    IF Truthy(data) /\ data.ty = "array" /\ Len(data.a) > 0
    THEN JArr(platformMap(data.a, 1, <<>>))
    ELSE JArr(<<JObj([platform |-> JStr("web"), branch |-> JStr("main"),
                      commitHash |-> JStr("abc1234"), totalSize |-> JNum(1572864),
                      jsSize |-> JNum(1048576), assetsSize |-> JNum(524288),
                      timestamp |-> JStr(toISOString(1))])>>)

-----------------------------------------------------------------------------
(* The requests, the environments and the answers of the Analytics Engine  *)

Envs ==
    {[ANALYTICS_ACCOUNT_ID |-> "acc", ANALYTICS_API_TOKEN |-> "tok", ENVIRONMENT |-> e] :
         e \in {"production", "development"}}
    \cup {[ANALYTICS_ACCOUNT_ID |-> "", ANALYTICS_API_TOKEN |-> "tok",
           ENVIRONMENT |-> "production"],
          [ANALYTICS_ACCOUNT_ID |-> "acc", ANALYTICS_API_TOKEN |-> "",
           ENVIRONMENT |-> "development"]}

\* the outcomes of a query whose OK answers hold one of the row sequences
Outcomes(rowSeqs) ==
    {Rejects, NonOk, BadJson, OkJson(JNull), OkJson(JObj(NoFields))}
    \cup {OkJson(JObj([data |-> JArr(rows)])) : rows \in rowSeqs}

\* Math.random(), in hundredths: the least and the greatest value, every
\* draw of one request giving the same
Randoms == {0, 99}

\* a text given where a number is expected, or where a name is
Texts == {"2", "abc", "0", "-5", "3; DROP TABLE sync_metrics_prod", "1' OR '1'='1"}
Branches == {"develop", "main' OR '1'='1", "x' UNION SELECT blob1 FROM secrets --"}

\* the queries the request schema of each route lets through: hours, days and
\* branch are any string, bucket and platform one of their enum, each optional
TimeseriesQueries ==
    {[hours |-> h, bucket |-> b] :
         h \in {Undefined} \cup {JStr(x) : x \in Texts},
         b \in {Undefined, JStr("hour"), JStr("day")}}

BundleTrendsQueries ==
    {[days |-> d, platform |-> pf, branch |-> br] :
         d \in {Undefined, JStr("2"), JStr("abc"), JStr("1' OR '1'='1")},
         pf \in {Undefined, JStr("ios"), JStr("android"), JStr("web")},
         br \in {Undefined} \cup {JStr(x) : x \in Branches}}

SummaryRows ==
    {<<>>, <<JObj([syncType |-> JStr("machine"), syncMode |-> JStr("cached"),
                   count |-> JNum(7), avgDurationMs |-> JQuotient(125, 10),
                   p95DurationMs |-> JNum(40), successRate |-> JNum(1)])>>}

TimeseriesRows ==
    {<<>>, <<JObj([timestamp |-> JStr(isoHoursAgo(1)), count |-> JNum(42),
                   avgDurationMs |-> JNum(200)])>>}

CacheHitsRows ==
    {<<>>} \cup {<<JObj([hits |-> JNum(h), misses |-> JNum(m)])>> :
                     h \in {0, 1}, m \in {0, 2}}

ModeRows ==
    {<<>>,
     <<JObj([mode |-> JStr("full"), count |-> JNum(3)]),
       JObj([mode |-> JStr("cached"), count |-> JNum(2)])>>,
     <<JObj([mode |-> JStr("full"), count |-> JNum(3)]),
       JObj([mode |-> JStr("full"), count |-> JNum(5)])>>,
     <<JObj([mode |-> JStr("partial"), count |-> JNum(1)])>>}

BundleTrendsRows ==
    {<<>>, <<JObj([date |-> JStr(isoHoursAgo(24)), platform |-> JStr("web"),
                   avgTotalSize |-> JQuotient(31457285, 10),
                   avgJsSize |-> JQuotient(20971524, 10),
                   avgAssetsSize |-> JNum(1048576), buildCount |-> JNum(5)])>>}

\* a row of bundle_metrics: a build of a commit for a platform
Build(platform, commit) ==
    JObj([platform |-> JStr(platform), branch |-> JStr("main"), commitHash |-> JStr(commit),
          totalSize |-> IF commit = "abc1234" THEN JQuotient(31457285, 20) ELSE JNum(1600000),
          jsSize |-> IF commit = "abc1234" THEN JNum(1048576) ELSE JQuotient(10485764, 10),
          assetsSize |-> JNum(524288)])

Builds == {Build(pf, commit) : pf \in {"web", "ios"}, commit \in {"abc1234", "def5678"}}

MaxRows == 3

\* the results of the bundle-latest query: up to MaxRows builds, ordered by
\* timestamp descending, row i being i hours old
BundleLatestRows ==
    UNION {{[i \in 1..n |-> With(builds[i], "timestamp", JStr(isoHoursAgo(i)))] :
                builds \in [1..n -> Builds]} : n \in 0..MaxRows}

\* c.json({ data, timestamp: new Date().toISOString() }, 200)
Json200(data) ==
    [status |-> 200, body |-> JObj([data |-> data, timestamp |-> JStr(toISOString(1))])]

\* the answer of the framework when a handler ends with an exception
Unhandled == [status |-> 500, body |-> JStr("Internal Server Error")]

\* what the Analytics Engine can do for an environment
OutcomesFor(env, rowSeqs) == IF Configured(env) THEN Outcomes(rowSeqs) ELSE {NotConfigured}

NoQuery == [none |-> Undefined]

\* a request: the route, the environment of the worker, the validated query,
\* what the Analytics Engine is going to do and what Math.random() gives
Request(route, env, query, engine, random) ==
    [route |-> route, env |-> env, query |-> query, engine |-> engine, random |-> random]

RequestsOf(route, queries, rowSeqs, randoms) ==
    UNION {{Request(route, env, query, engine, random) :
                query \in queries, engine \in OutcomesFor(env, rowSeqs), random \in randoms} :
           env \in Envs}

Requests ==
    RequestsOf("summary", {NoQuery}, SummaryRows, {0})
    \cup RequestsOf("timeseries", TimeseriesQueries, TimeseriesRows, Randoms)
    \cup RequestsOf("cache-hits", {NoQuery}, CacheHitsRows, {0})
    \cup RequestsOf("mode-distribution", {NoQuery}, ModeRows, {0})
    \cup RequestsOf("bundle-trends", BundleTrendsQueries, BundleTrendsRows, Randoms)
    \cup RequestsOf("bundle-latest", {NoQuery}, BundleLatestRows, {0})

InitMetrics ==
    /\ request \in Requests
    /\ sent = ""
    /\ reply = NoReply
    /\ IdleProtocol
    /\ IdleContainers
    /\ IdleErrors
    /\ IdleLint
    /\ IdleAnalytics

\* the request is handled from its arrival to its answer: the SQL is sent
\* when the Analytics Engine is configured, and the answer is c.json(...)
\* unless the query ended with an exception
Handle(route, sql, result, data) ==
    /\ request.route = route
    /\ reply = NoReply
    /\ sent' = IF Configured(request.env) THEN sql ELSE ""
    /\ reply' = IF result.kind = "throw" THEN Unhandled ELSE Json200(data)
    /\ UNCHANGED request
    /\ UNCHANGED beyondMetrics

\* const result = await queryAnalyticsEngine(c.env, sql)
Result == queryAnalyticsEngine(request.env, request.engine)

SummaryRoute ==
    Handle("summary", summarySql(request.env), Result, summaryData(Result.val))

TimeseriesRoute ==
    Handle("timeseries", timeseriesSql(request.env, request.query), Result,
           timeseriesData(Result.val, request.query, request.random))

CacheHitsRoute ==
    Handle("cache-hits", cacheHitsSql(request.env), Result, cacheHitsData(Result.val))

ModeDistributionRoute ==
    Handle("mode-distribution", modeDistributionSql(request.env), Result,
           modeDistributionData(Result.val))

BundleTrendsRoute ==
    Handle("bundle-trends", bundleTrendsSql(request.env, request.query), Result,
           bundleTrendsData(Result.val, request.query, request.random))

BundleLatestRoute ==
    Handle("bundle-latest", bundleLatestSql(request.env), Result, bundleLatestData(Result.val))

NextMetrics ==
    \/ SummaryRoute
    \/ TimeseriesRoute
    \/ CacheHitsRoute
    \/ ModeDistributionRoute
    \/ BundleTrendsRoute
    \/ BundleLatestRoute

SpecMetrics == InitMetrics /\ [][NextMetrics]_vars


-----------------------------------------------------------------------------
\* the data a route answers with when its query gave null
MockData(req) ==
    CASE req.route = "summary" -> summaryData(JNull)
      [] req.route = "timeseries" -> timeseriesData(JNull, req.query, req.random)
      [] req.route = "cache-hits" -> cacheHitsData(JNull)
      [] req.route = "mode-distribution" -> modeDistributionData(JNull)
      [] req.route = "bundle-trends" -> bundleTrendsData(JNull, req.query, req.random)
      [] req.route = "bundle-latest" -> bundleLatestData(JNull)

(* C18: every metrics route answers 200 with a body {data, timestamp}       *)
(* whatever its Analytics Engine query does, and with its mock data when    *)
(* the engine is not configured, when the response is not OK and when the   *)
(* request itself fails.                                                    *)
C18_AlwaysAnswersWithData ==
    reply # NoReply =>
        /\ reply.status = 200
        /\ DOMAIN reply.body.o = {"data", "timestamp"}
        /\ request.engine.kind \in {"not-configured", "non-ok", "rejects"} =>
               reply.body.o.data = MockData(request)

\* the positions of the quotes of an SQL text
QuotesOf(sql) == {i \in 1..Len(sql) : CharAt(sql, i) = "'"}

RECURSIVE SkeletonBetween(_, _, _, _)
\* the characters of sql[lo..hi] that are outside the literals, and the quotes
SkeletonBetween(sql, quotes, lo, hi) ==
    IF lo > hi THEN ""
    ELSE IF lo = hi
    THEN (IF lo \in quotes \/ Cardinality({q \in quotes : q < lo}) % 2 = 0
          THEN CharAt(sql, lo) ELSE "")
    ELSE LET mid == (lo + hi) \div 2
         IN SkeletonBetween(sql, quotes, lo, mid) \o SkeletonBetween(sql, quotes, mid + 1, hi)

\* the structure of an SQL text: the text with every literal emptied
Skeleton(sql) == SkeletonBetween(sql, QuotesOf(sql), 1, Len(sql))

\* the query with a harmless value in place of each free-text parameter given
Harmless(query) ==
    [k \in DOMAIN query |->
         IF query[k] = Undefined THEN Undefined
         ELSE CASE k = "hours" -> JStr("24")
                [] k = "days" -> JStr("30")
                [] k = "branch" -> JStr("main")
                [] OTHER -> query[k]]

FirstRowOf(rows, entry) ==
    rows[CHOOSE i \in DOMAIN rows :
             /\ rows[i].o.platform = entry.o.platform
             /\ \A j \in 1..(i - 1) : rows[j].o.platform # entry.o.platform]

(* C20: when the query of bundle-latest gives rows, the route answers with  *)
(* one entry for each platform among them and no more; the entry of a       *)
(* platform has the branch, commit and timestamp of the first row of that   *)
(* platform and its sizes rounded, whatever rows of the platform follow,    *)
(* and the entries are in the order in which the platforms first occur.     *)
C20_FirstRowOfEachPlatform ==
    request.route = "bundle-latest" /\ reply.status = 200
        /\ request.engine.kind = "ok" /\ ResultData(request.engine.json).ty = "array"
        /\ ResultData(request.engine.json).a # <<>> =>
        LET rows == ResultData(request.engine.json).a
            data == reply.body.o.data.a
            firstAt(pf) == CHOOSE i \in DOMAIN rows :
                               /\ rows[i].o.platform = pf
                               /\ \A j \in 1..(i - 1) : rows[j].o.platform # pf
        IN /\ \A i, j \in DOMAIN data : data[i].o.platform = data[j].o.platform => i = j
           /\ {data[i].o.platform : i \in DOMAIN data} = {rows[i].o.platform : i \in DOMAIN rows}
           /\ \A i \in DOMAIN data :
                  LET row == FirstRowOf(rows, data[i])
                  IN /\ data[i].o.commitHash = row.o.commitHash
                     /\ data[i].o.branch = row.o.branch
                     /\ data[i].o.timestamp = row.o.timestamp
                     /\ data[i].o.totalSize = MathRound(row.o.totalSize)
                     /\ data[i].o.jsSize = MathRound(row.o.jsSize)
                     /\ data[i].o.assetsSize = MathRound(row.o.assetsSize)
           /\ \A i, j \in DOMAIN data :
                  i < j => firstAt(data[i].o.platform) < firstAt(data[j].o.platform)

\* the rows web abc1234, ios def5678, web def5678 have been answered with the
\* web build abc1234 (1572864.25 bytes, rounded) and then the ios build
C20_Witness ==
    /\ request.route = "bundle-latest"
    /\ request.engine.kind = "ok"
    /\ ResultData(request.engine.json) =
           JArr(<<With(Build("web", "abc1234"), "timestamp", JStr(isoHoursAgo(1))),
                  With(Build("ios", "def5678"), "timestamp", JStr(isoHoursAgo(2))),
                  With(Build("web", "def5678"), "timestamp", JStr(isoHoursAgo(3)))>>)
    /\ reply.status = 200
    /\ Len(reply.body.o.data.a) = 2
    /\ reply.body.o.data.a[1].o.commitHash = JStr("abc1234")
    /\ reply.body.o.data.a[1].o.totalSize = JNum(1572864)
    /\ reply.body.o.data.a[1].o.timestamp = JStr(isoHoursAgo(1))
    /\ reply.body.o.data.a[2].o.platform = JStr("ios")

-----------------------------------------------------------------------------
(* @happy/lint-rules.  A file is its name and the statements of its        *)
(* program; a node of the syntax tree is a record with the fields ESTree    *)
(* gives its type.  A run of a rule over a file leaves the reports, each    *)
(* with the position of its node (the path of child indices from the        *)
(* program), and the source after the fixes.                                *)

Identifier(name) == [type |-> "Identifier", name |-> name]
\* #name of a class
PrivateIdentifier(name) == [type |-> "PrivateIdentifier", name |-> name]
Literal(text) == [type |-> "Literal", value |-> text]
ThisExpression == [type |-> "ThisExpression"]
\* object.property, and object[property] when computed
MemberExpression(object, property, computed) ==
    [type |-> "MemberExpression", object |-> object, property |-> property,
     computed |-> computed]
CallExpression(callee, arguments) ==
    [type |-> "CallExpression", callee |-> callee, arguments |-> arguments]

\* x.a, x.a.b
Dot(object, name) == MemberExpression(object, Identifier(name), FALSE)

\* node.name, undefined ("") on a node that has none
NameOf(node) == IF "name" \in DOMAIN node THEN node.name ELSE ""

\* function isTestFile(filename)
isTestFile(filename) ==
    IF filename = "" THEN FALSE
    ELSE \/ Includes(filename, ".spec.")
         \/ Includes(filename, ".test.")
         \/ Includes(filename, "__tests__")
         \/ Includes(filename, "__mocks__")

\* function matchesBodyPropertyPattern(node, propertyName)
matchesBodyPropertyPattern(node, propertyName) ==
    IF NameOf(node.property) # propertyName THEN FALSE
    ELSE LET objectNode == node.object
         IN IF objectNode.type # "MemberExpression" THEN FALSE
            ELSE IF NameOf(objectNode.property) # "body" THEN FALSE
            ELSE TRUE

\* the MemberExpression(node) visitor of the rule: the reports it makes
MemberExpressionVisitor(node, at) ==
    IF matchesBodyPropertyPattern(node, "sid")
    THEN <<[at |-> at, messageId |-> "avoidDirectSid"]>>
    ELSE IF matchesBodyPropertyPattern(node, "machineId")
    THEN <<[at |-> at, messageId |-> "avoidDirectMachineId"]>>
    ELSE <<>>

RECURSIVE Traverse(_, _)
RECURSIVE TraverseEach(_, _, _)
\* the traversal of the tree below node: every MemberExpression is handed to
\* the visitor when it is entered
Traverse(node, at) ==
    CASE node.type = "MemberExpression" ->
             MemberExpressionVisitor(node, at)
                 \o Traverse(node.object, Append(at, 1))
                 \o Traverse(node.property, Append(at, 2))
      [] node.type = "CallExpression" ->
             Traverse(node.callee, Append(at, 1))
                 \o TraverseEach(node.arguments, Append(at, 2), 1)
      [] OTHER -> <<>>

TraverseEach(nodes, at, i) ==
    IF i > Len(nodes) THEN <<>>
    ELSE Traverse(nodes[i], Append(at, i)) \o TraverseEach(nodes, at, i + 1)

\* function create(context) of protocol-helpers, and the run of its visitor
\* over the program: no visitor at all for a test file
protocolHelpers(f) ==
    IF isTestFile(f.filename) THEN <<>>
    ELSE TraverseEach(f.body, <<>>, 1)

\* a declaration statement; id is Null for a class without a name
Null == [type |-> "null"]
Declaration(type, name) == [type |-> type, id |-> Identifier(name)]
AnonymousClass == [type |-> "ClassDeclaration", id |-> Null]

UpperCaseLetters == "ABCDEFGHIJKLMNOPQRSTUVWXYZ"
LowerCaseLetters == "abcdefghijklmnopqrstuvwxyz"
RECURSIVE ToLowerCase(_)
\* the text with its ASCII capitals in lower case: what the i flag of a
\* regular expression compares
ToLowerCase(text) ==
    IF text = "" THEN ""
    ELSE LET ch == CharAt(text, 1)
             lower == IF \E k \in 1..26 : CharAt(UpperCaseLetters, k) = ch
                      THEN CharAt(LowerCaseLetters,
                                  CHOOSE k \in 1..26 : CharAt(UpperCaseLetters, k) = ch)
                      ELSE ch
         IN lower \o ToLowerCase(SubSeq(text, 2, Len(text)))

\* /Github(?!ub)/i.test(name)
GithubNotUb(name) ==
    \E i \in 1..(Len(name) - 5) :
        /\ ToLowerCase(SubSeq(name, i, i + 5)) = "github"
        /\ ~ (i + 7 <= Len(name) /\ ToLowerCase(SubSeq(name, i + 6, i + 7)) = "ub")

\* function hasIncorrectGithubCasing(name)
hasIncorrectGithubCasing(name) ==
    GithubNotUb(name) /\ Includes(name, "Github") /\ ~ Includes(name, "GitHub")

RECURSIVE ReplaceGithub(_, _)
\* name.replace(/Github/g, 'GitHub') from position i on
ReplaceGithub(name, i) ==
    IF i > Len(name) THEN ""
    ELSE IF i + 5 <= Len(name) /\ SubSeq(name, i, i + 5) = "Github"
    THEN "GitHub" \o ReplaceGithub(name, i + 6)
    ELSE CharAt(name, i) \o ReplaceGithub(name, i + 1)

\* function fixGithubCasing(name)
fixGithubCasing(name) == ReplaceGithub(name, 1)

\* function isTypeLikeDeclaration(node)
typeLikeTypes ==
    {"TSTypeAliasDeclaration", "TSInterfaceDeclaration", "ClassDeclaration",
     "TSEnumDeclaration"}

\* function reportIncorrectCasing(node) of the identifier of a declaration
reportIncorrectCasing(node, at) ==
    LET name == node.name
    IN IF hasIncorrectGithubCasing(name)
       THEN <<[at |-> at, messageId |-> "incorrectCasing", name |-> name,
               fix |-> fixGithubCasing(name)]>>
       ELSE <<>>

RECURSIVE githubCasingFrom(_, _)
\* function create(context) of github-casing, and the run of its four
\* visitors over the statements from the i-th on
githubCasingFrom(body, i) ==
    IF i > Len(body) THEN <<>>
    ELSE (IF body[i].type \in typeLikeTypes /\ body[i].id # Null
          THEN reportIncorrectCasing(body[i].id, <<i, 1>>)
          ELSE <<>>) \o githubCasingFrom(body, i + 1)

githubCasing(f) == githubCasingFrom(f.body, 1)

\* the program after fixer.replaceText(node, ...) of every report
Fixed(body, found) ==
    [i \in DOMAIN body |->
        IF \E r \in DOMAIN found : found[r].at = <<i, 1>>
        THEN [body[i] EXCEPT !.id =
                 Identifier(found[CHOOSE r \in DOMAIN found : found[r].at = <<i, 1>>].fix)]
        ELSE body[i]]

\* the names of the files that are linted
Filenames ==
    {"", "/path/to/file.ts", "/path/to/file.test.ts", "/path/to/file.spec.ts",
     "/path/to/__tests__/file.ts", "/path/to/__mocks__/file.ts",
     "/path/to/latest/spectest.ts"}

updateIdentifier == Identifier("update")
\* expression statements, each given as its expression
Expressions ==
    {Dot(Dot(updateIdentifier, "body"), "sid"),
     Dot(Dot(Identifier("message"), "body"), "machineId"),
     Dot(Dot(updateIdentifier, "body"), "status"),
     Dot(Identifier("session"), "sid"),
     Dot(Dot(Identifier("config"), "sessionId"), "sid"),
     Dot(Identifier("machine"), "machineId"),
     Dot(Identifier("data"), "body"),
     CallExpression(Identifier("getSessionId"), <<Dot(updateIdentifier, "body")>>),
     CallExpression(Identifier("processSession"), <<Dot(Dot(updateIdentifier, "body"), "sid")>>),
     CallExpression(Identifier("pair"),
                    <<Dot(Dot(updateIdentifier, "body"), "sid"), Dot(Dot(updateIdentifier, "body"), "machineId")>>),
     Dot(Dot(Dot(updateIdentifier, "body"), "sid"), "length"),
     Dot(Dot(Dot(updateIdentifier, "body"), "body"), "sid"),
     Dot(CallExpression(Identifier("getBody"), <<>>), "sid"),
     MemberExpression(Dot(updateIdentifier, "body"), Identifier("sid"), TRUE),
     MemberExpression(Dot(updateIdentifier, "body"), Literal("sid"), TRUE),
     MemberExpression(MemberExpression(updateIdentifier, Identifier("body"), TRUE),
                      Identifier("machineId"), FALSE),
     MemberExpression(Dot(ThisExpression, "body"), PrivateIdentifier("sid"), FALSE)}

DeclarationTypes ==
    typeLikeTypes \cup {"VariableDeclaration", "FunctionDeclaration"}
Names ==
    {"GithubUser", "GitHubUser", "githubToken", "myGithubConfig", "User",
     "GithubToGithubSync", "GithubToGitHubSync", "Githubub", "GITHUBClient", "Github"}
\* every name as an interface, and three of them as each other declaration
Declarations ==
    {Declaration("TSInterfaceDeclaration", name) : name \in Names}
        \cup {Declaration(type, name) :
                  type \in DeclarationTypes,
                  name \in {"GithubUser", "GitHubUser", "GithubToGitHubSync"}}
        \cup {AnonymousClass}

MaxStatements == 2
\* the programs of up to MaxStatements statements
Programs(statements) ==
    UNION {[1..n -> statements] : n \in 1..MaxStatements}

\* one statement under every file name, longer programs in a source file
\* and in a test file
Files ==
    {[filename |-> filename, rule |-> "protocol-helpers", body |-> <<e>>] :
         filename \in Filenames, e \in Expressions}
        \cup {[filename |-> filename, rule |-> "protocol-helpers", body |-> body] :
                  filename \in {"/path/to/file.ts", "/path/to/file.test.ts"},
                  body \in Programs(Expressions)}
        \cup {[filename |-> "/path/to/file.ts", rule |-> "github-casing", body |-> body] :
                  body \in Programs(Declarations)}

\* a file is about to be linted with one rule enabled
InitLint ==
    /\ file \in Files
    /\ reports = <<>>
    /\ output = <<>>
    /\ IdleProtocol
    /\ IdleContainers
    /\ IdleErrors
    /\ IdleMetrics
    /\ IdleAnalytics

\* the run of happy/protocol-helpers over the file; the rule has no fix
ProtocolHelpers ==
    /\ file.rule = "protocol-helpers"
    /\ output = <<>>
    /\ reports' = protocolHelpers(file)
    /\ output' = file.body
    /\ UNCHANGED file
    /\ UNCHANGED beyondLint

\* the run of happy/github-casing over the file, with its fixes applied
GithubCasing ==
    /\ file.rule = "github-casing"
    /\ output = <<>>
    /\ reports' = githubCasing(file)
    /\ output' = Fixed(file.body, githubCasing(file))
    /\ UNCHANGED file
    /\ UNCHANGED beyondLint

NextLint ==
    \/ ProtocolHelpers
    \/ GithubCasing

SpecLint == InitLint /\ [][NextLint]_vars

RECURSIVE NodesBelow(_, _)
\* every node of the tree below node, with its position
NodesBelow(node, at) ==
    {[at |-> at, node |-> node]} \cup
        CASE node.type = "MemberExpression" ->
                 NodesBelow(node.object, Append(at, 1))
                     \cup NodesBelow(node.property, Append(at, 2))
          [] node.type = "CallExpression" ->
                 NodesBelow(node.callee, Append(at, 1))
                     \cup UNION {NodesBelow(node.arguments[i], Append(Append(at, 2), i)) :
                                     i \in DOMAIN node.arguments}
          [] OTHER -> {}

NodesOf(body) == UNION {NodesBelow(body[i], <<i>>) : i \in DOMAIN body}

\* <expr>.body.name written as a direct property access
DirectBodyAccess(node, name) ==
    /\ node.type = "MemberExpression"
    /\ ~ node.computed
    /\ node.property = Identifier(name)
    /\ node.object.type = "MemberExpression"
    /\ ~ node.object.computed
    /\ node.object.property = Identifier("body")

\* the messages the rule owes a node
Owed(node) ==
    IF DirectBodyAccess(node, "sid") THEN {"avoidDirectSid"}
    ELSE IF DirectBodyAccess(node, "machineId") THEN {"avoidDirectMachineId"}
    ELSE {}

TestFileName(filename) ==
    \E part \in {".spec.", ".test.", "__tests__", "__mocks__"} : Includes(filename, part)

(* C21: outside test files protocol-helpers reports exactly the direct     *)
(* accesses <expr>.body.sid (avoidDirectSid) and <expr>.body.machineId      *)
(* (avoidDirectMachineId), once each, and in a test file it reports nothing. *)
C21_ReportsExactlyDirectBodyAccess ==
    (file.rule = "protocol-helpers" /\ output # <<>>) =>
        IF TestFileName(file.filename) THEN reports = <<>>
        ELSE /\ \A p \in NodesOf(file.body) :
                    LET here == {r \in DOMAIN reports : reports[r].at = p.at}
                    IN /\ {reports[r].messageId : r \in here} = Owed(p.node)
                       /\ Cardinality(here) = Cardinality(Owed(p.node))
             /\ \A r \in DOMAIN reports : \E p \in NodesOf(file.body) : p.at = reports[r].at

(* C22: github-casing reports a type alias, interface, class or enum        *)
(* declaration exactly when its name contains "Github"; the fixed name      *)
(* contains no "Github" and the rule reports nothing on the fixed program.  *)
C22_ReportsEveryGithubAndFixes ==
    (file.rule = "github-casing" /\ output # <<>>) =>
        /\ \A i \in DOMAIN file.body :
               (/\ file.body[i].type \in typeLikeTypes
                /\ file.body[i].id # Null
                /\ Includes(file.body[i].id.name, "Github"))
                   <=> \E r \in DOMAIN reports : reports[r].at = <<i, 1>>
        /\ \A r \in DOMAIN reports :
               /\ ~ Includes(reports[r].fix, "Github")
               /\ output[reports[r].at[1]].id.name = reports[r].fix
        /\ githubCasing([file EXCEPT !.body = output]) = <<>>

-----------------------------------------------------------------------------
(* useAnalytics.  A fetchAll that is waiting on its Promise.all is a record *)
(* of fetches, keyed by the order in which it was started: the hours and    *)
(* bucket it asked for and the requests that have not been answered yet.    *)
(* A timer is the handle setInterval returned; timers holds the active     *)
(* ones and refreshIntervalId is 0 for null.                                *)

\* export function timeRangeToHours(range)
timeRangeToHours(range) ==
    CASE range = "1h" -> 1
      [] range = "6h" -> 6
      [] range = "24h" -> 24
      [] range = "7d" -> 168

\* the four requests of the Promise.all
AnalyticsRequests == {"summary", "timeseries", "cacheHits", "modeDistribution"}

MaxFetches == 2

\* the part of fetchAll before its await: the four requests are sent for
\* the time range of that moment
fetchAll(range) ==
    LET hours == timeRangeToHours(range)
        bucket == IF hours > 24 THEN "day" ELSE "hour"
        id == started + 1
    IN /\ started < MaxFetches
       /\ loading' = TRUE
       /\ fetchError' = JNull
       /\ started' = id
       /\ fetches' = [f \in DOMAIN fetches \cup {id} |->
                         IF f = id
                         THEN [hours |-> hours, bucket |-> bucket,
                               awaiting |-> AnalyticsRequests]
                         ELSE fetches[f]]
       /\ UNCHANGED state

\* the data of the responses of fetch id: summaryRes.data, timeseriesRes.data,
\* cacheRes.data, distributionRes.data and the time of the assignment
Fetched(id) ==
    [summary |-> [from |-> id, hours |-> 0],
     timeseries |-> [from |-> id, hours |-> fetches[id].hours],
     cacheHits |-> [from |-> id, hours |-> 0],
     modeDistribution |-> [from |-> id, hours |-> 0],
     lastUpdated |-> id]

\* fetches without the one that has settled
Settled(id) == [f \in DOMAIN fetches \ {id} |-> fetches[f]]

\* apiFetch: what a request that fails throws, a rejected fetch() or the
\* ApiError of a response that is not ok
ApiFailures ==
    {JStr("Failed to fetch"), JStr("API request failed: 500 Internal Server Error")}

\* the timer state after startAutoRefresh()
NewTimer(active) == CHOOSE id \in 1..(Cardinality(active) + 1) : id \notin active

startAutoRefreshUnguarded(t) ==
    LET id == NewTimer(t.timers)
    IN [refreshIntervalId |-> id, timers |-> t.timers \cup {id}]

startAutoRefresh(t) ==
    IF t.refreshIntervalId # 0 THEN t
    ELSE LET id == NewTimer(t.timers)
         IN [refreshIntervalId |-> id, timers |-> t.timers \cup {id}]

\* the timer state after stopAutoRefresh()
stopAutoRefresh(t) ==
    IF t.refreshIntervalId # 0
    THEN [refreshIntervalId |-> 0, timers |-> t.timers \ {t.refreshIntervalId}]
    ELSE t

Timer == [refreshIntervalId |-> refreshIntervalId, timers |-> timers]
SetTimer(t) == refreshIntervalId' = t.refreshIntervalId /\ timers' = t.timers

fetchVars == <<loading, fetchError, state, fetches, started>>

InitAnalytics ==
    /\ IdleAnalytics
    /\ IdleProtocol
    /\ IdleContainers
    /\ IdleErrors
    /\ IdleMetrics
    /\ IdleLint

\* Dashboard.vue onMounted: fetchAll(); startAutoRefresh()
Mount ==
    /\ mounted = "setup"
    /\ mounted' = "mounted"
    /\ fetchAll(timeRange)
    /\ SetTimer(startAutoRefresh(Timer))
    /\ UNCHANGED <<timeRange, autoRefreshEnabled>>
    /\ UNCHANGED beyondAnalytics

\* onUnmounted(() => stopAutoRefresh())
Unmount ==
    /\ mounted = "mounted"
    /\ mounted' = "unmounted"
    /\ SetTimer(stopAutoRefresh(Timer))
    /\ UNCHANGED <<timeRange, autoRefreshEnabled, fetchVars>>
    /\ UNCHANGED beyondAnalytics

\* refresh(), and the Refresh button's fetchAll; the component that holds
\* the composable calls it until it is unmounted
Refresh ==
    /\ mounted # "unmounted"
    /\ fetchAll(timeRange)
    /\ UNCHANGED <<timeRange, autoRefreshEnabled, refreshIntervalId, timers, mounted>>
    /\ UNCHANGED beyondAnalytics

\* setTimeRange(range)
SetTimeRange(range) ==
    /\ mounted # "unmounted"
    /\ timeRange' = range
    /\ fetchAll(range)
    /\ UNCHANGED <<autoRefreshEnabled, refreshIntervalId, timers, mounted>>
    /\ UNCHANGED beyondAnalytics

\* an interval timer fires: setInterval(fetchAll, autoRefreshInterval)
Tick ==
    /\ timers # {}
    /\ fetchAll(timeRange)
    /\ UNCHANGED <<timeRange, autoRefreshEnabled, refreshIntervalId, timers, mounted>>
    /\ UNCHANGED beyondAnalytics

\* a request of fetch id is answered; with the last answer the Promise.all
\* resolves and fetchAll goes on: state.value = {...}, then finally
RespondOk(id, req) ==
    /\ id \in DOMAIN fetches
    /\ req \in fetches[id].awaiting
    /\ IF fetches[id].awaiting = {req}
       THEN /\ state' = Fetched(id)
            /\ loading' = FALSE
            /\ fetches' = Settled(id)
       ELSE /\ fetches' = [fetches EXCEPT ![id].awaiting = @ \ {req}]
            /\ UNCHANGED <<state, loading>>
    /\ UNCHANGED <<fetchError, started>>
    /\ UNCHANGED <<timeRange, autoRefreshEnabled, refreshIntervalId, timers, mounted>>
    /\ UNCHANGED beyondAnalytics

\* a request of fetch id fails: the Promise.all rejects and fetchAll goes on
\* in its catch, then finally; the other answers are dropped
RespondFailedClearing(id, req, err) ==
    /\ id \in DOMAIN fetches
    /\ req \in fetches[id].awaiting
    /\ fetchError' = err
    /\ loading' = FALSE
    /\ fetches' = Settled(id)
    /\ state' = [state EXCEPT !.timeseries = NoData]
    /\ UNCHANGED started
    /\ UNCHANGED <<timeRange, autoRefreshEnabled, refreshIntervalId, timers, mounted>>
    /\ UNCHANGED beyondAnalytics

RespondFailed(id, req, err) ==
    /\ id \in DOMAIN fetches
    /\ req \in fetches[id].awaiting
    /\ fetchError' = err
    /\ loading' = FALSE
    /\ fetches' = Settled(id)
    /\ UNCHANGED <<state, started>>
    /\ UNCHANGED <<timeRange, autoRefreshEnabled, refreshIntervalId, timers, mounted>>
    /\ UNCHANGED beyondAnalytics

\* toggleAutoRefresh(enabled): enabled is "toggle" when it is not given
ToggleAutoRefresh(enabled) ==
    LET on == IF enabled = "toggle" THEN ~ autoRefreshEnabled ELSE enabled = "true"
    IN /\ mounted # "unmounted"
       /\ autoRefreshEnabled' = on
       /\ IF on /\ refreshIntervalId = 0 THEN SetTimer(startAutoRefresh(Timer))
          ELSE IF ~ on /\ refreshIntervalId # 0 THEN SetTimer(stopAutoRefresh(Timer))
          ELSE UNCHANGED <<refreshIntervalId, timers>>
       /\ UNCHANGED <<timeRange, mounted, fetchVars>>
       /\ UNCHANGED beyondAnalytics

StartAutoRefresh ==
    /\ mounted # "unmounted"
    /\ SetTimer(startAutoRefresh(Timer))
    /\ UNCHANGED <<timeRange, autoRefreshEnabled, mounted, fetchVars>>
    /\ UNCHANGED beyondAnalytics

StopAutoRefresh ==
    /\ mounted # "unmounted"
    /\ SetTimer(stopAutoRefresh(Timer))
    /\ UNCHANGED <<timeRange, autoRefreshEnabled, mounted, fetchVars>>
    /\ UNCHANGED beyondAnalytics

\* the ranges a caller asks for: one of each bucket
TimeRanges == {"24h", "7d"}

NextAnalytics ==
    \/ Mount
    \/ Unmount
    \/ Refresh
    \/ \E range \in TimeRanges : SetTimeRange(range)
    \/ Tick
    \/ \E id \in DOMAIN fetches, req \in AnalyticsRequests : RespondOk(id, req)
    \/ \E id \in DOMAIN fetches, req \in AnalyticsRequests, err \in ApiFailures :
           RespondFailed(id, req, err)
    \/ \E enabled \in {"toggle", "true", "false"} : ToggleAutoRefresh(enabled)
    \/ StartAutoRefresh
    \/ StopAutoRefresh

SpecAnalytics == InitAnalytics /\ [][NextAnalytics]_vars

\* the four datasets and lastUpdated come from the fetchAll numbered id
FromFetch(id) ==
    /\ state.summary.from = id
    /\ state.timeseries.from = id
    /\ state.cacheHits.from = id
    /\ state.modeDistribution.from = id
    /\ state.lastUpdated = id

(* C23: once no fetchAll is in flight, state holds the data of the one that *)
(* was started last, fetched for the current timeRange: an earlier fetch    *)
(* never replaces the data of a later one.  (error is null exactly when no  *)
(* fetchAll has failed since the last one started.)                         *)
C23_LastStartedFetchWins ==
    (DOMAIN fetches = {} /\ started > 0 /\ fetchError = JNull) =>
        /\ FromFetch(started)
        /\ state.timeseries.hours = timeRangeToHours(timeRange)

(* C24: loading is true whenever at least one fetchAll is in flight, also  *)
(* when two of them overlap.                                                *)
C24_LoadingWhileInFlight ==
    DOMAIN fetches # {} => loading

(* C25: at most one auto-refresh timer is ever active, the active one is   *)
(* the one refreshIntervalId holds, and stopAutoRefresh and the unmount     *)
(* leave none active.                                                       *)
C25_AtMostOneTimer ==
    /\ [](Cardinality(timers) <= 1 /\ timers = {refreshIntervalId} \ {0})
    /\ [][(StopAutoRefresh \/ Unmount) => timers' = {}]_vars

\* after the mount one timer is active and refreshIntervalId holds it, while
\* the fetchAll of the mount and that of a timer tick are in flight
C25_Witness ==
    /\ mounted = "mounted"
    /\ timers = {1}
    /\ refreshIntervalId = 1
    /\ started = MaxFetches
    /\ DOMAIN fetches = {1, 2}

(* C26: autoRefreshEnabled is true exactly when an auto-refresh timer is   *)
(* active, from the creation of the composable on.                          *)
C26_EnabledIffTimerActive ==
    autoRefreshEnabled <=> timers # {}

(* C27: a fetchAll with a failed request sets error and leaves state as it *)
(* was, and a fetchAll whose four requests succeed replaces the five fields *)
(* together: the datasets in state always come from one fetchAll.           *)
C27_AllOrNothing ==
    /\ [](\E id \in 0..started : FromFetch(id))
    /\ [][\A id \in DOMAIN fetches \ DOMAIN fetches' :
              \/ /\ Cardinality(fetches[id].awaiting) = 1
                 /\ state' = Fetched(id)
                 /\ \A field \in DOMAIN state : state'[field] # state[field]
              \/ /\ state' = state
                 /\ fetchError' # JNull]_vars
    /\ [][state' # state => DOMAIN fetches' # DOMAIN fetches]_vars

\* the first fetchAll has filled state, and the second has failed after
\* three of its requests were answered: state still holds the first
C27_Witness ==
    /\ started = 2
    /\ DOMAIN fetches = {}
    /\ fetchError = JStr("API request failed: 500 Internal Server Error")
    /\ FromFetch(1)
    /\ ~ loading

-----------------------------------------------------------------------------
RECURSIVE ProcessMixedMachineFirst(_)
\* the same loop with the two checks in the other order
ProcessMixedMachineFirst(us) ==
    IF us = <<>> THEN <<>>
    ELSE LET update == us[Len(us)]
             results == ProcessMixedMachineFirst(SubSeq(us, 1, Len(us) - 1))
         IN IF hasMachineId(update)
            THEN Append(results, [type |-> "machine", id |-> getMachineId(update)])
            ELSE IF hasSessionId(update)
            THEN Append(results, [type |-> "session", id |-> getSessionId(update)])
            ELSE results

-----------------------------------------------------------------------------
(* UpdatePayloadSchema, the server-side container: its body is              *)
(* z.object({ t: z.string() as z.ZodType<ApiUpdateType> }).passthrough().   *)
(* The cast changes the inferred type only; what is parsed is z.string().   *)

UpdatePayloadBodySchema == [t |-> ZString]

\* UpdatePayloadSchema.safeParse(v)
UpdatePayloadSchemaParse(v) ==
    IF v.ty # "object" THEN Fail({Issue(<<>>, "invalid_type")})
    ELSE LET envelope ==
                 ParseObject([id |-> ZString, seq |-> ZNumber, createdAt |-> ZNumber], v, <<>>)
             body == ParseObjectPassthrough(UpdatePayloadBodySchema, Prop(v, "body"),
                                            <<"body">>)
             issues == envelope.issues \cup body.issues
         IN IF issues = {} THEN Ok(With(envelope.data, "body", body.data)) ELSE Fail(issues)

\* UpdatePayloadSchema.safeParse of the oldest payload not yet validated
ValidatePayloadNext ==
    /\ Len(validated) < Len(stream)
    /\ validated' = Append(validated, UpdatePayloadSchemaParse(stream[Len(validated) + 1]))
    /\ UNCHANGED stream
    /\ UNCHANGED beyondContainers

NextPayloads ==
    \/ \E c \in Containers : ReceiveContainer(c)
    \/ ValidatePayloadNext

SpecPayloads == InitContainers /\ [][NextPayloads]_vars

(* C29: a payload that UpdatePayloadSchema accepts has a body whose t is    *)
(* one of the tags of the Durable Updates, so it accepts no payload that    *)
(* ApiUpdateContainerSchema rejects for an unknown t.                       *)
C29_PayloadTagIsKnown ==
    \A i \in DOMAIN validated :
        validated[i].success =>
            /\ validated[i].data.o.body.o.t.s \in UpdateTags
            /\ Issue(<<"body", "t">>, "invalid_union_discriminator")
                   \notin ApiUpdateContainerSchemaParse(stream[i]).issues

====
